---- MODULE Spec2Model ----
(***************************************************************************)
(* Model of the memory-layer control plane: the rate limiter (in-process   *)
(* and Redis backends), the admission middleware and the cache service.    *)
(*                                                                         *)
(* Time is a single clock counted in ticks of half a millisecond, so that  *)
(* the float seconds of time.time() keep a resolution finer than the       *)
(* millisecond the code truncates to.                                      *)
(***************************************************************************)
EXTENDS Integers, Sequences, FiniteSets, TLC

VARIABLES
    clock,      \* time.time(), in ticks
    advances,   \* number of clock advances made so far
    limiter,    \* the backend _build_limiter selected: "memory" or "redis"
    windows,    \* InMemoryRateLimiter._windows: key -> deque of timestamps
    redis,      \* the Redis keyspace of the limiter: key -> [value, expire]
    limit,      \* the RateLimitConfig the callers pass to hit
    lock,       \* InMemoryRateLimiter._lock: "free" or the caller holding it
    pc,         \* per caller: position inside hit
    call,       \* per caller: the locals of its hit call
    started,    \* number of hit calls started so far
    memHits,    \* per key: the results the in-process limiter returned, in order
    redisHits,  \* per key: the results the Redis limiter returned, in order
    mw,         \* RateLimitMiddleware: its limit strings and parsed limits
    slot,       \* per request in flight: its position in dispatch and its locals
    last,       \* the request dispatch finished last, with its response
    entered,    \* number of requests that entered dispatch so far
    cache,      \* CacheService: enabled, search_ttl, and max_items of its backend
    cacheStore, \* InMemoryCache._store: the entries, in insertion order
    calls,      \* number of CacheService calls made so far
    backendCalls, \* number of calls the backend has received
    written,    \* per key: the last CacheService.set made for it
    reply,      \* the CacheService call made last, with what it returned
    computed,   \* the cache keys computed so far, each with the call that built it
    records,    \* the repository: id -> embedding job record
    jobs,       \* per EmbeddingJobQueue: its drain loop and its drain_once pass
    worker,     \* the worker process: its position in run/_serve and what it did
    startup     \* backend selection: the settings, the backends built, the last call

timeVars == <<clock, advances>>

storeVars == <<limiter, windows, redis>>

callerVars == <<limit, lock, pc, call, started, memHits, redisHits>>

mwVars == <<mw, slot, last, entered>>

cacheVars == <<cache, cacheStore, calls, backendCalls, written, reply>>

keyVars == <<computed>>

\* the state of the parts that stand apart from limiter, middleware and cache
queueVars == <<records, jobs>>

workerVars == <<worker>>

startVars == <<startup>>

restVars == <<keyVars, queueVars, workerVars, startVars>>

vars == <<timeVars, storeVars, callerVars, mwVars, cacheVars, restVars>>

-----------------------------------------------------------------------------
(* Bounds *)

MaxAdvances == 2
MaxHits == 3

-----------------------------------------------------------------------------
(* Time *)

TicksPerMs == 2

TicksPerSecond == TicksPerMs * 1000

\* int(t * 1000) for a float t in seconds, held here in ticks
ToMs(t) == (t * 1000) \div TicksPerSecond

\* the amounts by which the clock may move between two steps
TimeSteps == {1, TicksPerSecond - 1}

Advance(d) ==
    /\ advances < MaxAdvances
    /\ clock' = clock + d
    /\ advances' = advances + 1

-----------------------------------------------------------------------------
(* RateLimitConfig and the keys of the limiter *)

RateLimitConfig(a, w) == [amount |-> a, window_seconds |-> w]

Configs == {RateLimitConfig(1, 1), RateLimitConfig(2, 1)}

Identifiers == {"client"}

Callers == {"c1", "c2"}

\* config.window_seconds on the clock's scale
WindowTicks(config) == config.window_seconds * TicksPerSecond

\* InMemoryRateLimiter._key
MemKey(config, identifier) == <<config.amount, config.window_seconds, identifier>>

\* the key RedisRateLimiter.hit builds, under its prefix
RedisKey(config, identifier) ==
    <<"aiml:ratelimit", config.amount, config.window_seconds, identifier>>

\* defaultdict(deque): a key never touched reads as an empty deque
Entries(w, key) == IF key \in DOMAIN w THEN w[key] ELSE <<>>

History(h, key) == IF key \in DOMAIN h THEN h[key] ELSE <<>>

Put(f, key, val) == [k \in DOMAIN f \cup {key} |-> IF k = key THEN val ELSE f[k]]

-----------------------------------------------------------------------------
(* InMemoryRateLimiter.hit *)

\* while entries and entries[0] <= window_start: entries.popleft()
RECURSIVE PopExpired(_, _)
PopExpired(entries, window_start) ==
    IF entries # <<>> /\ Head(entries) <= window_start
    THEN PopExpired(Tail(entries), window_start)
    ELSE entries

AllowedOffByOne(count, config) == count < config.amount

\* allowed = count <= config.amount
Allowed(count, config) == count <= config.amount

\* reset = int((entries[0] + window) * 1000) if entries else int((now + window) * 1000)
MemReset(entries, now, config) ==
    IF entries # <<>>
    THEN ToMs(Head(entries) + WindowTicks(config))
    ELSE ToMs(now + WindowTicks(config))

LockIgnored == TRUE

\* asyncio.Lock.acquire proceeds only when the lock is not held
LockAvailable == lock = "free"

NoCall == [backend |-> "none"]

\* key = self._key(...); now = time.time(); window_start = now - window_seconds
MemStart(c, config, identifier) ==
    /\ limiter = "memory"
    /\ pc[c] = "idle"
    /\ started < MaxHits
    /\ started' = started + 1
    /\ call' = [call EXCEPT ![c] =
                  [backend |-> "memory", config |-> config, key |-> MemKey(config, identifier),
                   now |-> clock,
                   window_start |-> clock - WindowTicks(config)]]
    /\ pc' = [pc EXCEPT ![c] = "wait"]
    /\ UNCHANGED <<timeVars, storeVars, mwVars, cacheVars, restVars, limit, lock, memHits, redisHits>>

\* async with self._lock; entries = self._windows[key] and the purge loop
MemAcquire(c) ==
    /\ pc[c] = "wait"
    /\ LockAvailable
    /\ lock' = c
    /\ windows' = Put(windows, call[c].key,
                      PopExpired(Entries(windows, call[c].key), call[c].window_start))
    /\ pc' = [pc EXCEPT ![c] = "append"]
    /\ UNCHANGED <<timeVars, mwVars, cacheVars, restVars, limiter, redis, limit, call, started, memHits, redisHits>>

\* entries.append(now)
MemAppend(c) ==
    /\ pc[c] = "append"
    /\ windows' = Put(windows, call[c].key, Append(Entries(windows, call[c].key), call[c].now))
    /\ pc' = [pc EXCEPT ![c] = "count"]
    /\ UNCHANGED <<timeVars, mwVars, cacheVars, restVars, limiter, redis, limit, lock, call, started, memHits, redisHits>>

\* count, allowed, reset; the lock is released and the result returned
MemReturn(c) ==
    /\ pc[c] = "count"
    /\ LET entries == Entries(windows, call[c].key)
           count == Len(entries)
           result == [now |-> call[c].now,
                      count |-> count,
                      allowed |-> Allowed(count, call[c].config),
                      reset_epoch_ms |-> MemReset(entries, call[c].now, call[c].config)]
       IN  memHits' = Put(memHits, call[c].key, Append(History(memHits, call[c].key), result))
    /\ lock' = "free"
    /\ call' = [call EXCEPT ![c] = NoCall]
    /\ pc' = [pc EXCEPT ![c] = "idle"]
    /\ UNCHANGED <<timeVars, storeVars, mwVars, cacheVars, restVars, limit, started, redisHits>>

-----------------------------------------------------------------------------
(* RedisRateLimiter.hit *)

\* the server's clock, in milliseconds
ServerMs == clock \div TicksPerMs

\* a key is gone once the server's clock has passed its expiry
Live(store, key) ==
    /\ key \in DOMAIN store
    /\ (store[key].expire < 0 \/ ServerMs <= store[key].expire)

\* LUA_SCRIPT: INCR, PEXPIRE when the counter is new, PTTL; run atomically
LuaScript(store, key, window_ms) ==
    LET current == IF Live(store, key) THEN store[key].value + 1 ELSE 1
        expire == IF current = 1 THEN ServerMs + window_ms
                  ELSE store[key].expire
        ttl == IF expire < 0 THEN -1 ELSE expire - ServerMs
    IN  [store |-> Put(store, key, [value |-> current, expire |-> expire]),
         reply |-> <<current, ttl>>]

\* key, window_ms and the round trip of self.redis.eval; the script takes
\* effect at the server, where the history notes its place among the hits
RedisEval(c, config, identifier) ==
    /\ limiter = "redis"
    /\ pc[c] = "idle"
    /\ started < MaxHits
    /\ started' = started + 1
    /\ LET key == RedisKey(config, identifier)
           window_ms == config.window_seconds * 1000
           r == LuaScript(redis, key, window_ms)
           h == History(redisHits, key)
       IN  /\ redis' = r.store
           /\ call' = [call EXCEPT ![c] =
                         [backend |-> "redis", config |-> config, key |-> key,
                          window_ms |-> window_ms, result |-> r.reply,
                          index |-> Len(h) + 1]]
           /\ redisHits' = Put(redisHits, key,
                               Append(h, [at |-> ServerMs, returned |-> FALSE]))
    /\ pc' = [pc EXCEPT ![c] = "reply"]
    /\ UNCHANGED <<timeVars, mwVars, cacheVars, restVars, limiter, windows, limit, lock, memHits>>

\* if ttl_ms < 0: ttl_ms = window_ms
TtlOrWindow(ttl_ms, window_ms) == IF ttl_ms < 0 THEN window_ms ELSE ttl_ms

\* count, ttl_ms, allowed, reset_epoch_ms = int(time.time() * 1000 + ttl_ms)
RedisReturn(c) ==
    /\ pc[c] = "reply"
    /\ LET count == call[c].result[1]
           ttl_ms == TtlOrWindow(call[c].result[2], call[c].window_ms)
           h == redisHits[call[c].key]
           result == [at |-> h[call[c].index].at,
                      returned |-> TRUE,
                      now |-> clock,
                      count |-> count,
                      allowed |-> Allowed(count, call[c].config),
                      reset_epoch_ms |-> ToMs(clock) + ttl_ms]
       IN  redisHits' = [redisHits EXCEPT ![call[c].key][call[c].index] = result]
    /\ call' = [call EXCEPT ![c] = NoCall]
    /\ pc' = [pc EXCEPT ![c] = "idle"]
    /\ UNCHANGED <<timeVars, storeVars, mwVars, cacheVars, restVars, limit, lock, started, memHits>>

-----------------------------------------------------------------------------
(* The limiter under concurrent callers *)

InitTime ==
    /\ clock = 0
    /\ advances = 0

\* InMemoryRateLimiter.__init__, and a Redis server holding no limiter key
InitStore ==
    /\ limiter \in {"memory", "redis"}
    /\ windows = <<>>
    /\ redis = <<>>

NoCallers ==
    /\ lock = "free"
    /\ pc = [c \in Callers |-> "idle"]
    /\ call = [c \in Callers |-> NoCall]
    /\ started = 0
    /\ memHits = <<>>
    /\ redisHits = <<>>

NoMiddleware ==
    /\ mw = [installed |-> FALSE]
    /\ slot = <<>>
    /\ last = <<>>
    /\ entered = 0

NoKeys == computed = {}

NoStartup == startup = [pc |-> "none"]

NoQueue ==
    /\ records = <<>>
    /\ jobs = <<>>

NoWorker == worker = [pc |-> "none"]

NoCache ==
    /\ cache = [installed |-> FALSE]
    /\ cacheStore = <<>>
    /\ calls = 0
    /\ backendCalls = 0
    /\ written = <<>>
    /\ reply = <<>>

InitLimiter ==
    /\ InitTime
    /\ InitStore
    /\ limit \in Configs
    /\ NoCallers
    /\ NoMiddleware
    /\ NoCache
    /\ NoKeys
    /\ NoStartup
    /\ NoQueue
    /\ NoWorker

Tick == \E d \in TimeSteps : Advance(d) /\ UNCHANGED <<storeVars, callerVars, mwVars, cacheVars, restVars>>

NextLimiter ==
    \/ Tick
    \/ \E c \in Callers, identifier \in Identifiers : MemStart(c, limit, identifier)
    \/ \E c \in Callers : MemAcquire(c)
    \/ \E c \in Callers : MemAppend(c)
    \/ \E c \in Callers : MemReturn(c)
    \/ \E c \in Callers, identifier \in Identifiers : RedisEval(c, limit, identifier)
    \/ \E c \in Callers : RedisReturn(c)

SpecLimiter == InitLimiter /\ [][NextLimiter]_vars

-----------------------------------------------------------------------------
(* The limiter as the middleware calls it: one hit, start to end *)

\* InMemoryRateLimiter.hit; the lock makes the purge, append and count one step
MemHit(w, config, identifier, now) ==
    LET key == MemKey(config, identifier)
        entries == Append(PopExpired(Entries(w, key), now - WindowTicks(config)), now)
        count == Len(entries)
    IN  [windows |-> Put(w, key, entries),
         result |-> [allowed |-> Allowed(count, config),
                     count |-> count,
                     reset_epoch_ms |-> MemReset(entries, now, config)]]

\* RedisRateLimiter.hit
RedisHit(store, config, identifier) ==
    LET window_ms == config.window_seconds * 1000
        r == LuaScript(store, RedisKey(config, identifier), window_ms)
        count == r.reply[1]
    IN  [redis |-> r.store,
         result |-> [allowed |-> Allowed(count, config),
                     count |-> count,
                     reset_epoch_ms |-> ToMs(clock) + TtlOrWindow(r.reply[2], window_ms)]]

LimiterHitSparingRejected(config, identifier) ==
    LET m == MemHit(windows, config, identifier, clock)
        r == RedisHit(redis, config, identifier)
        result == IF limiter = "memory" THEN m.result ELSE r.result
    IN  IF result.allowed
        THEN [windows |-> IF limiter = "memory" THEN m.windows ELSE windows,
              redis |-> IF limiter = "memory" THEN redis ELSE r.redis,
              result |-> result]
        ELSE [windows |-> windows, redis |-> redis, result |-> result]

\* self.limiter.hit(config, identifier) on the backend that was built
LimiterHit(config, identifier) ==
    IF limiter = "memory"
    THEN LET h == MemHit(windows, config, identifier, clock)
         IN  [windows |-> h.windows, redis |-> redis, result |-> h.result]
    ELSE LET h == RedisHit(redis, config, identifier)
         IN  [windows |-> windows, redis |-> h.redis, result |-> h.result]

-----------------------------------------------------------------------------
(* The two limiters side by side: every hit is made on both at the same time *)

\* hit(config, identifier) on an InMemoryRateLimiter and on a RedisRateLimiter,
\* both at the clock's time; each history notes what its limiter returned
HitBoth(config, identifier) ==
    /\ started < MaxHits
    /\ started' = started + 1
    /\ LET m == MemHit(windows, config, identifier, clock)
           r == RedisHit(redis, config, identifier)
           mkey == MemKey(config, identifier)
           rkey == RedisKey(config, identifier)
       IN  /\ windows' = m.windows
           /\ redis' = r.redis
           /\ memHits' = Put(memHits, mkey, Append(History(memHits, mkey), m.result))
           /\ redisHits' = Put(redisHits, rkey, Append(History(redisHits, rkey), r.result))
    /\ UNCHANGED <<timeVars, mwVars, cacheVars, restVars, limiter, limit, lock, pc, call>>

\* a fresh InMemoryRateLimiter and a RedisRateLimiter over an empty server
InitTwins ==
    /\ InitTime
    /\ limiter = "memory"
    /\ windows = <<>>
    /\ redis = <<>>
    /\ limit \in Configs
    /\ NoCallers
    /\ NoMiddleware
    /\ NoCache
    /\ NoKeys
    /\ NoStartup
    /\ NoQueue
    /\ NoWorker

NextTwins ==
    \/ Tick
    \/ \E identifier \in Identifiers : HitBoth(limit, identifier)

SpecTwins == InitTwins /\ [][NextTwins]_vars

-----------------------------------------------------------------------------
(* Requests *)

None == "<None>"

\* Python truthiness of an optional string
Truthy(v) == v # None /\ v # ""

\* a or b
Or(a, b) == IF Truthy(a) THEN a ELSE b

BypassPaths ==
    {"/v1/admin/health", "/v1/admin/readiness", "/metrics", "/docs", "/openapi.json"}

\* what request.json() finds: text that is no JSON, JSON that is no object, an
\* object without tenant_id, an object with one
Bodies ==
    {[kind |-> "invalid", tenant_id |-> None],
     [kind |-> "list", tenant_id |-> None],
     [kind |-> "object", tenant_id |-> None],
     [kind |-> "object", tenant_id |-> "t1"]}

\* method, content type and body of a request
Payloads ==
    {[method |-> "POST", content_type |-> "application/json", body |-> b] : b \in Bodies}
    \cup {[method |-> "GET", content_type |-> "application/json",
           body |-> [kind |-> "object", tenant_id |-> "t1"]],
          [method |-> "POST", content_type |-> "text/plain",
           body |-> [kind |-> "object", tenant_id |-> "t1"]]}

\* x-forwarded-for, split at the commas and stripped; empty when the header is absent
ForwardedFor == {<<>>, <<"10.0.0.2", "10.0.0.9">>}

\* the requests sent: to the API with every payload, and to each operational path
Requests ==
    [path : {"/v1/messages"},
     payload : Payloads,
     header_tenant : {None, "t1"},
     path_tenant : {None},
     query_tenant : {None},
     forwarded : ForwardedFor,
     client : {"10.0.0.2"}]
    \cup
    [path : BypassPaths,
     payload : {[method |-> "GET", content_type |-> "", body |-> [kind |-> "invalid", tenant_id |-> None]]},
     header_tenant : {None, "t1"},
     path_tenant : {None},
     query_tenant : {None},
     forwarded : {<<>>},
     client : {"10.0.0.2"}]

\* _extract_tenant_id_hint
ExtractTenantIdHint(request) ==
    Or(Or(request.header_tenant, request.path_tenant), request.query_tenant)

\* content-type starts with application/json
IsJsonContentType(content_type) ==
    content_type \in {"application/json", "application/json; charset=utf-8"}

ResolveTenantIdDefaulting(request) ==
    LET hint == ExtractTenantIdHint(request)
    IN  IF Truthy(hint) THEN hint
        ELSE IF request.payload.body.kind = "object" /\ Truthy(request.payload.body.tenant_id)
        THEN request.payload.body.tenant_id
        ELSE "default"

\* _resolve_tenant_id
ResolveTenantId(request) ==
    LET hint == ExtractTenantIdHint(request)
    IN  IF Truthy(hint) THEN hint
        ELSE IF /\ request.payload.method \in {"POST", "PUT", "PATCH"}
                /\ IsJsonContentType(request.payload.content_type)
        THEN IF request.payload.body.kind = "invalid" THEN None
             ELSE IF request.payload.body.kind = "object" THEN request.payload.body.tenant_id
             ELSE hint
        ELSE hint

\* _get_ip_identifier
GetIpIdentifier(request) ==
    IF request.forwarded # <<>>
    THEN <<"ip", Head(request.forwarded)>>
    ELSE <<"ip", IF request.client # None THEN request.client ELSE "unknown">>

\* tenant_identifier = f"tenant:{tenant_id}" if tenant_id else None
TenantIdentifier(tenant_id) == IF Truthy(tenant_id) THEN <<"tenant", tenant_id>> ELSE <<"none">>

-----------------------------------------------------------------------------
(* RateLimitMiddleware *)

\* the settings of a run: global_rate_limit and tenant_rate_limit, each a limit
\* string "<amount><separator><unit>" held as its three parts
LimitSettings ==
    {[global_rate_limit |-> <<1, "/", "minute">>, tenant_rate_limit |-> <<2, "/", "minute">>],
     [global_rate_limit |-> <<100, "/", "minute">>, tenant_rate_limit |-> <<2, "/", "minute">>],
     [global_rate_limit |-> <<100, "/", "minute">>, tenant_rate_limit |-> <<1, " per ", "second">>]}

UnitSeconds(unit) ==
    CASE unit = "second" -> 1
      [] unit = "minute" -> 60
      [] unit = "hour" -> 3600
      [] unit = "day" -> 86400

\* _parse_limit, on a string of the accepted form
ParseLimit(limit_str) == RateLimitConfig(limit_str[1], UnitSeconds(limit_str[3]))

MaxRequests == 3

MaxPauses == 1

Slots == {"r1", "r2"}

\* a request takes the first free slot: which slot holds it changes nothing
SlotOrder == [r \in Slots |-> IF r = "r1" THEN 1 ELSE 2]

Max(a, b) == IF a >= b THEN a ELSE b

\* retry_after = max(1, int(reset_epoch_ms / 1000 - time.time()))
RetryAfter(reset_epoch_ms) ==
    LET num == reset_epoch_ms * TicksPerSecond - clock * 1000
    IN  IF num <= 0 THEN 1 ELSE Max(1, num \div (1000 * TicksPerSecond))

DetailAlwaysGlobal(scope, tenant_id, limit_str) == <<"Rate limit exceeded: ", limit_str>>

\* the detail message of _reject
Detail(scope, tenant_id, limit_str) ==
    IF scope = "tenant"
    THEN <<"Tenant rate limit exceeded for ", tenant_id, ": ", limit_str>>
    ELSE <<"Rate limit exceeded: ", limit_str>>

\* _reject
Reject(request_id, limit_str, scope, tenant_id, reset_epoch_ms) ==
    LET retry_after == RetryAfter(reset_epoch_ms)
    IN  [status |-> 429,
         detail |-> Detail(scope, tenant_id, limit_str),
         retry_after |-> retry_after,
         headers |-> ("Retry-After" :> retry_after)
                     @@ ("X-Request-ID" :> IF request_id # None THEN request_id ELSE "unknown")]

\* tenant_state = None
NoResult == [allowed |-> TRUE, count |-> 0, reset_epoch_ms |-> 0]

\* the handler's response, and _apply_headers on it
Forwarded(global_state, tenant_state) ==
    [status |-> 200,
     detail |-> <<>>,
     retry_after |-> 0,
     headers |->
        ("X-RateLimit-Limit" :> mw.global_limit.amount)
        @@ ("X-RateLimit-Remaining" :> Max(0, mw.global_limit.amount - global_state.count))
        @@ ("X-RateLimit-Reset" :> global_state.reset_epoch_ms \div 1000)
        @@ (IF tenant_state # NoResult
            THEN ("X-RateLimit-Tenant-Limit" :> mw.tenant_limit.amount)
                 @@ ("X-RateLimit-Tenant-Remaining" :>
                        Max(0, mw.tenant_limit.amount - tenant_state.count))
                 @@ ("X-RateLimit-Tenant-Reset" :> tenant_state.reset_epoch_ms \div 1000)
            ELSE <<>>)]

\* return await call_next(request), on a bypassed path: the handler's own response
Untouched == [status |-> 200, detail |-> <<>>, retry_after |-> 0, headers |-> <<>>]

NoResponse == [status |-> 0, detail |-> <<>>, retry_after |-> 0, headers |-> <<>>]

\* a request: where it stands in dispatch, and the locals dispatch holds for it;
\* request_id is request.state.request_id, set upstream for every request or none
Idle ==
    [stage |-> "idle", path |-> "", request_id |-> None, tenant_id |-> None,
     malformed |-> FALSE, global_identifier |-> <<"none">>, tenant_identifier |-> <<"none">>,
     global_state |-> NoResult, tenant_state |-> NoResult, scope |-> "",
     forwarded |-> FALSE, response |-> NoResponse]

\* a request dispatch has returned for: its identifiers are no longer held
Finished(request) ==
    [request EXCEPT !.stage = "done",
                    !.global_identifier = <<"none">>, !.tenant_identifier = <<"none">>]

BypassedExceptOpenapi(path) == path \in BypassPaths \ {"/openapi.json"}

\* request.url.path in [...]
Bypassed(path) == path \in BypassPaths

\* the body was consulted for a tenant and held none: no JSON, no object, no tenant_id
MalformedBody(request) ==
    /\ ~Truthy(ExtractTenantIdHint(request))
    /\ request.payload.method \in {"POST", "PUT", "PATCH"}
    /\ IsJsonContentType(request.payload.content_type)
    /\ (request.payload.body.kind # "object" \/ request.payload.body.tenant_id = None)

TenantCheckFirst == "tenant"

\* the limiter dispatch calls first: the global one, on the IP-derived identifier
FirstCheck == "global"

\* dispatch up to the first limiter call: the bypass, tenant and ip identifiers
Enter(r, request) ==
    /\ slot[r].stage = "idle"
    /\ \A q \in Slots : slot[q].stage = "idle" => SlotOrder[r] <= SlotOrder[q]
    /\ entered < MaxRequests
    /\ entered' = entered + 1
    /\ IF Bypassed(request.path)
       THEN /\ last' = [Idle EXCEPT !.stage = "done", !.path = request.path,
                                    !.request_id = mw.request_id,
                                    !.forwarded = TRUE, !.response = Untouched]
            /\ slot' = slot
       ELSE /\ LET tenant_id == ResolveTenantId(request)
               IN  slot' = [slot EXCEPT ![r] =
                      [Idle EXCEPT !.stage = FirstCheck,
                                   !.path = request.path,
                                   !.request_id = mw.request_id,
                                   !.tenant_id = tenant_id,
                                   !.malformed = MalformedBody(request),
                                   !.global_identifier = GetIpIdentifier(request),
                                   !.tenant_identifier = TenantIdentifier(tenant_id)]]
            /\ last' = last
    /\ UNCHANGED <<timeVars, storeVars, callerVars, cacheVars, restVars, mw>>

GlobalNeverRejects(state) == FALSE

\* if not global_state.allowed
GlobalRejects(state) == ~state.allowed

\* global_state = await self.limiter.hit(self.global_limit, global_identifier)
GlobalCheck(r) ==
    /\ slot[r].stage = "global"
    /\ LET h == LimiterHit(mw.global_limit, slot[r].global_identifier)
       IN  /\ windows' = h.windows
           /\ redis' = h.redis
           /\ IF GlobalRejects(h.result)
              THEN /\ last' = [Finished(slot[r]) EXCEPT
                                  !.global_state = h.result,
                                  !.scope = "global",
                                  !.response = Reject(slot[r].request_id, mw.global_limit_str,
                                                      "global", None, h.result.reset_epoch_ms)]
                   /\ slot' = [slot EXCEPT ![r] = Idle]
              ELSE /\ slot' = [slot EXCEPT ![r] =
                                 [slot[r] EXCEPT
                                     !.global_state = h.result,
                                     !.stage = IF slot[r].tenant_identifier # <<"none">>
                                               THEN "tenant" ELSE "forward"]]
                   /\ last' = last
    /\ UNCHANGED <<timeVars, callerVars, cacheVars, restVars, limiter, mw, entered>>

\* tenant_state = await self.limiter.hit(self.tenant_limit, tenant_identifier)
TenantCheck(r) ==
    /\ slot[r].stage = "tenant"
    /\ LET h == LimiterHit(mw.tenant_limit, slot[r].tenant_identifier)
       IN  /\ windows' = h.windows
           /\ redis' = h.redis
           /\ IF ~h.result.allowed
              THEN /\ last' = [Finished(slot[r]) EXCEPT
                                  !.tenant_state = h.result,
                                  !.scope = "tenant",
                                  !.response = Reject(slot[r].request_id, mw.tenant_limit_str,
                                                      "tenant", slot[r].tenant_id,
                                                      h.result.reset_epoch_ms)]
                   /\ slot' = [slot EXCEPT ![r] = Idle]
              ELSE /\ slot' = [slot EXCEPT ![r] =
                                 [slot[r] EXCEPT !.tenant_state = h.result, !.stage = "forward"]]
                   /\ last' = last
    /\ UNCHANGED <<timeVars, callerVars, cacheVars, restVars, limiter, mw, entered>>

\* response = await call_next(request); self._apply_headers(...)
Forward(r) ==
    /\ slot[r].stage = "forward"
    /\ last' = [Finished(slot[r]) EXCEPT
                   !.forwarded = TRUE,
                   !.response = Forwarded(slot[r].global_state, slot[r].tenant_state)]
    /\ slot' = [slot EXCEPT ![r] = Idle]
    /\ UNCHANGED <<timeVars, storeVars, callerVars, cacheVars, restVars, mw, entered>>

\* RateLimitMiddleware.__init__
InitMiddleware ==
    /\ InitTime
    /\ InitStore
    /\ limit = RateLimitConfig(0, 0)
    /\ NoCallers
    /\ \E settings \in LimitSettings, request_id \in {None, "req-1"} :
          mw = [installed |-> TRUE,
                request_id |-> request_id,
                global_limit_str |-> settings.global_rate_limit,
                tenant_limit_str |-> settings.tenant_rate_limit,
                global_limit |-> ParseLimit(settings.global_rate_limit),
                tenant_limit |-> ParseLimit(settings.tenant_rate_limit)]
    /\ slot = [r \in Slots |-> Idle]
    /\ last = Idle
    /\ entered = 0
    /\ NoCache
    /\ NoKeys
    /\ NoStartup
    /\ NoQueue
    /\ NoWorker

\* between two steps of dispatch time stands still or a little over a second passes
Pause ==
    /\ advances < MaxPauses
    /\ clock' = clock + TicksPerSecond + 1
    /\ advances' = advances + 1
    /\ UNCHANGED <<storeVars, callerVars, cacheVars, restVars, mwVars>>

NextMiddleware ==
    \/ Pause
    \/ \E r \in Slots, request \in Requests : Enter(r, request)
    \/ \E r \in Slots : GlobalCheck(r)
    \/ \E r \in Slots : TenantCheck(r)
    \/ \E r \in Slots : Forward(r)

SpecMiddleware == InitMiddleware /\ [][NextMiddleware]_vars

\* the middleware with request.state.request_id set upstream: the request id
\* takes no part in what the limiters count
InitCounted == InitMiddleware /\ mw.request_id = "req-1"

SpecCounted == InitCounted /\ [][NextMiddleware]_vars

-----------------------------------------------------------------------------
(* Cache keys *)

\* A string is held as the sequence of its parts; an absent or empty string
\* is the empty sequence.

\* "sep".join(parts)
RECURSIVE Join(_, _)
Join(parts, sep) ==
    IF parts = <<>> THEN <<>>
    ELSE IF Len(parts) = 1 THEN Head(parts)
    ELSE Head(parts) \o <<sep>> \o Join(Tail(parts), sep)

\* hashlib.sha256(raw.encode("utf-8")).hexdigest(): one digest for each input
Sha256(raw) == <<"sha256(">> \o raw \o <<")">>

\* conversation_id or "*"
OrWildcard(conversation_id) == IF conversation_id = <<>> THEN <<"*">> ELSE conversation_id

\* str(n) of a natural number: its decimal digits
RECURSIVE Str(_)
Str(n) == IF n < 10 THEN <<ToString(n)>> ELSE Str(n \div 10) \o <<ToString(n % 10)>>

SearchKeyWithoutTopK(tenant_id, conversation_id, query, top_k, candidate_limit) ==
    LET raw == Join(<<tenant_id, OrWildcard(conversation_id),
                      Str(candidate_limit), query>>, "|")
    IN  <<"search", ":">> \o tenant_id \o <<":">> \o OrWildcard(conversation_id)
                           \o <<":">> \o Sha256(raw)

\* CacheService.search_key
SearchKey(tenant_id, conversation_id, query, top_k, candidate_limit) ==
    LET raw == Join(<<tenant_id, OrWildcard(conversation_id), Str(top_k),
                      Str(candidate_limit), query>>, "|")
    IN  <<"search", ":">> \o tenant_id \o <<":">> \o OrWildcard(conversation_id)
                           \o <<":">> \o Sha256(raw)

\* CacheService.embedding_key
EmbeddingKey(text) == <<"embedding", ":">> \o Sha256(text)

\* prefix = f"search:{tenant_id}:{conversation_id or '*'}:"
SearchPrefix(tenant_id, conversation_id) ==
    <<"search", ":">> \o tenant_id \o <<":">> \o OrWildcard(conversation_id) \o <<":">>

\* key.startswith(prefix)
StartsWith(key, prefix) ==
    /\ Len(prefix) <= Len(key)
    /\ SubSeq(key, 1, Len(prefix)) = prefix

TenantIds == {<<"t1">>, <<"t2">>}

ConversationIds == {<<>>, <<"c1">>}

\* the keys the callers use: two searches of one tenant and an embedding
CacheKeys ==
    {SearchKey(<<"t1">>, <<>>, <<"q">>, 5, 50),
     SearchKey(<<"t1">>, <<"c1">>, <<"q">>, 5, 50),
     EmbeddingKey(<<"hello">>)}

CacheValues == {"v1"}

\* the ttl argument of CacheService.set: absent, 0 or 1 second
Ttls == {<<>>, <<0>>, <<1>>}

-----------------------------------------------------------------------------
(* InMemoryCache *)

\* position of the key in the store, 0 when it holds none
RECURSIVE IndexOf(_, _)
IndexOf(s, key) ==
    IF s = <<>> THEN 0
    ELSE IF s[Len(s)].key = key THEN Len(s)
    ELSE IndexOf(SubSeq(s, 1, Len(s) - 1), key)

RemoveAt(s, i) == SubSeq(s, 1, i - 1) \o SubSeq(s, i + 1, Len(s))

\* min(self._store, key=lambda k: self._store[k][0]): the first of the entries
\* that expire earliest
OldestIndex(s) ==
    CHOOSE i \in 1..Len(s) :
        /\ \A j \in 1..Len(s) : s[i].expires_at <= s[j].expires_at
        /\ \A j \in 1..(i - 1) : s[j].expires_at > s[i].expires_at

\* InMemoryCache.get
InMemoryGet(s, key, now) ==
    LET i == IndexOf(s, key)
    IN  IF i = 0 THEN [store |-> s, value |-> None]
        ELSE IF s[i].expires_at < now THEN [store |-> RemoveAt(s, i), value |-> None]
        ELSE [store |-> s, value |-> s[i].value]

\* self._store[key] = (time.time() + ttl, value)
Assign(s, key, expires_at, value) ==
    LET i == IndexOf(s, key)
        entry == [key |-> key, expires_at |-> expires_at, value |-> value]
    IN  IF i = 0 THEN Append(s, entry) ELSE [s EXCEPT ![i] = entry]

\* InMemoryCache.set; min() of an empty store raises
InMemorySet(s, key, value, ttl, now, max_items) ==
    IF Len(s) >= max_items
    THEN IF s = <<>>
         THEN [store |-> s, raised |-> TRUE]
         ELSE [store |-> Assign(RemoveAt(s, OldestIndex(s)), key,
                                now + ttl * TicksPerSecond, value),
               raised |-> FALSE]
    ELSE [store |-> Assign(s, key, now + ttl * TicksPerSecond, value), raised |-> FALSE]

\* InMemoryCache.delete_prefix
InMemoryDeletePrefix(s, prefix) == SelectSeq(s, LAMBDA e : ~StartsWith(e.key, prefix))

-----------------------------------------------------------------------------
(* RedisCache *)

\* RedisCache._key, with the default prefix
CacheRedisKey(key) == <<"aiml", ":">> \o key

\* json.dumps(value) and json.loads(raw), for a string value
JsonDumps(value) == <<"json", value>>

JsonLoads(raw) == raw[2]

\* the glob match of SCAN ... MATCH pattern: * stands for any run of characters,
\* every other character for itself
RECURSIVE GlobMatch(_, _)
GlobMatch(pattern, string) ==
    IF pattern = <<>> THEN string = <<>>
    ELSE IF Head(pattern) = "*"
    THEN \/ GlobMatch(Tail(pattern), string)
         \/ string # <<>> /\ GlobMatch(pattern, Tail(string))
    ELSE /\ string # <<>>
         /\ Head(string) = Head(pattern)
         /\ GlobMatch(Tail(pattern), Tail(string))

\* RedisCache.get; the server drops a key whose time to live has run out
RedisCacheGet(s, key, now) ==
    LET i == IndexOf(s, CacheRedisKey(key))
    IN  IF i = 0 THEN [store |-> s, value |-> None]
        ELSE IF s[i].expires_at < now THEN [store |-> RemoveAt(s, i), value |-> None]
        ELSE [store |-> s, value |-> JsonLoads(s[i].value)]

\* RedisCache.set: SET key value EX ttl
RedisCacheSet(s, key, value, ttl, now) ==
    [store |-> Assign(s, CacheRedisKey(key), now + ttl * TicksPerSecond, JsonDumps(value)),
     raised |-> FALSE]

\* RedisCache.delete_prefix: every key the scan matches is deleted
RedisCacheDeletePrefix(s, prefix) ==
    LET scan_prefix == CacheRedisKey(prefix) \o <<"*">>
    IN  SelectSeq(s, LAMBDA e : ~GlobMatch(scan_prefix, e.key))

-----------------------------------------------------------------------------
(* CacheService *)

MaxCalls == 4

\* cache_enabled, cache_search_ttl_seconds and cache_max_items of the settings
CacheSettings ==
    [cache_enabled : BOOLEAN, cache_search_ttl_seconds : {2}, cache_max_items : {0, 1, 2}]

\* the backend handed to CacheService: new, or holding an entry already
Backends ==
    {<<>>,
     <<[key |-> SearchKey(<<"t1">>, <<>>, <<"q">>, 5, 50),
        expires_at |-> TicksPerSecond, value |-> "v0"]>>}

EnabledIgnored == FALSE

\* if not self.enabled
Disabled == ~cache.enabled

\* ttl or self.search_ttl
TtlOrDefault(ttl) == IF ttl = <<>> \/ Head(ttl) = 0 THEN cache.search_ttl ELSE Head(ttl)

\* the call made last: failed tells that the backend raised inside it, raised
\* that the exception left the CacheService method
NoReply ==
    [op |-> "none", key |-> <<>>, tenant_id |-> <<>>, conversation_id |-> <<>>,
     value |-> None, failed |-> FALSE, raised |-> FALSE]

\* the command sent to the Redis server raises: the server cannot be reached
Unreachable == cache.backend = "redis" /\ ~cache.reachable

\* self.backend.get
BackendGet(key) ==
    IF cache.backend = "redis" THEN RedisCacheGet(cacheStore, key, clock)
    ELSE InMemoryGet(cacheStore, key, clock)

\* self.backend.set
BackendSet(key, value, ttl) ==
    IF cache.backend = "redis" THEN RedisCacheSet(cacheStore, key, value, ttl, clock)
    ELSE InMemorySet(cacheStore, key, value, ttl, clock, cache.max_items)

\* self.backend.delete_prefix
BackendDeletePrefix(prefix) ==
    IF cache.backend = "redis" THEN RedisCacheDeletePrefix(cacheStore, prefix)
    ELSE InMemoryDeletePrefix(cacheStore, prefix)

\* CacheService.get
Get(key) ==
    /\ calls < MaxCalls
    /\ calls' = calls + 1
    /\ IF Disabled
       THEN /\ reply' = [NoReply EXCEPT !.op = "get", !.key = key]
            /\ UNCHANGED <<cacheStore, backendCalls>>
       ELSE IF Unreachable
       THEN /\ cacheStore' = cacheStore
            /\ backendCalls' = backendCalls + 1
            /\ reply' = [NoReply EXCEPT !.op = "get", !.key = key,
                                        !.failed = TRUE, !.raised = TRUE]
       ELSE LET g == BackendGet(key)
            IN  /\ cacheStore' = g.store
                /\ backendCalls' = backendCalls + 1
                /\ reply' = [NoReply EXCEPT !.op = "get", !.key = key, !.value = g.value]
    /\ UNCHANGED <<timeVars, storeVars, callerVars, mwVars, restVars, cache, written>>

\* CacheService.set
Set(key, value, ttl) ==
    /\ calls < MaxCalls
    /\ calls' = calls + 1
    /\ IF Disabled
       THEN /\ reply' = [NoReply EXCEPT !.op = "set", !.key = key]
            /\ UNCHANGED <<cacheStore, backendCalls, written>>
       ELSE IF Unreachable
       THEN /\ cacheStore' = cacheStore
            /\ backendCalls' = backendCalls + 1
            /\ written' = written
            /\ reply' = [NoReply EXCEPT !.op = "set", !.key = key,
                                        !.failed = TRUE, !.raised = TRUE]
       ELSE LET r == BackendSet(key, value, TtlOrDefault(ttl))
            IN  /\ cacheStore' = r.store
                /\ backendCalls' = backendCalls + 1
                /\ written' = IF r.raised THEN written
                              ELSE Put(written, key, [at |-> clock, ttl |-> ttl, value |-> value])
                /\ reply' = [NoReply EXCEPT !.op = "set", !.key = key,
                                            !.failed = r.raised, !.raised = r.raised]
    /\ UNCHANGED <<timeVars, storeVars, callerVars, mwVars, restVars, cache>>

\* CacheService.invalidate_search
InvalidateSearch(tenant_id, conversation_id) ==
    /\ calls < MaxCalls
    /\ calls' = calls + 1
    /\ reply' = [NoReply EXCEPT !.op = "invalidate_search", !.tenant_id = tenant_id,
                                !.conversation_id = conversation_id,
                                !.failed = ~Disabled /\ Unreachable,
                                !.raised = ~Disabled /\ Unreachable]
    /\ IF Disabled
       THEN UNCHANGED <<cacheStore, backendCalls>>
       ELSE IF Unreachable
       THEN /\ cacheStore' = cacheStore
            /\ backendCalls' = backendCalls + 1
       ELSE /\ cacheStore' = BackendDeletePrefix(SearchPrefix(tenant_id, conversation_id))
            /\ backendCalls' = backendCalls + 1
    /\ UNCHANGED <<timeVars, storeVars, callerVars, mwVars, restVars, cache, written>>

\* a second passes between two calls
CacheTick == Advance(TicksPerSecond) /\ UNCHANGED <<storeVars, callerVars, mwVars, cacheVars, restVars>>

\* CacheService.__init__ over an InMemoryCache
InitCache ==
    /\ InitTime
    /\ limiter = "memory"
    /\ windows = <<>>
    /\ redis = <<>>
    /\ limit = RateLimitConfig(0, 0)
    /\ NoCallers
    /\ NoMiddleware
    /\ \E settings \in CacheSettings :
          cache = [installed |-> TRUE,
                   backend |-> "memory",
                   reachable |-> TRUE,
                   enabled |-> settings.cache_enabled,
                   search_ttl |-> settings.cache_search_ttl_seconds,
                   max_items |-> settings.cache_max_items]
    /\ cacheStore \in {b \in Backends : Len(b) <= cache.max_items}
    /\ calls = 0
    /\ backendCalls = 0
    /\ written = <<>>
    /\ reply = NoReply
    /\ NoKeys
    /\ NoStartup
    /\ NoQueue
    /\ NoWorker

NextCache ==
    \/ CacheTick
    \/ \E key \in CacheKeys : Get(key)
    \/ \E key \in CacheKeys, value \in CacheValues, ttl \in Ttls : Set(key, value, ttl)
    \/ \E tenant_id \in TenantIds, conversation_id \in ConversationIds :
          InvalidateSearch(tenant_id, conversation_id)

SpecCache == InitCache /\ [][NextCache]_vars

-----------------------------------------------------------------------------
(* CacheService over either backend *)

\* the keys in use: searches of two tenants, of one conversation and of none,
\* and an embedding
BackendKeys == CacheKeys \cup {SearchKey(<<"t2">>, <<>>, <<"q">>, 5, 50)}

\* CacheService.__init__ with the backend _default_backend builds: RedisCache
\* when redis_url is set, InMemoryCache otherwise
InitBackends ==
    /\ InitTime
    /\ limiter = "memory"
    /\ windows = <<>>
    /\ redis = <<>>
    /\ limit = RateLimitConfig(0, 0)
    /\ NoCallers
    /\ NoMiddleware
    /\ \E backend \in {"memory", "redis"} :
          cache = [installed |-> TRUE, backend |-> backend, reachable |-> TRUE,
                   enabled |-> TRUE, search_ttl |-> 2, max_items |-> 3]
    /\ cacheStore = <<>>
    /\ calls = 0
    /\ backendCalls = 0
    /\ written = <<>>
    /\ reply = NoReply
    /\ NoKeys
    /\ NoStartup
    /\ NoQueue
    /\ NoWorker

NextBackends ==
    \/ \E key \in BackendKeys : Get(key)
    \/ \E key \in BackendKeys, value \in CacheValues : Set(key, value, <<>>)
    \/ \E tenant_id \in TenantIds, conversation_id \in ConversationIds :
          InvalidateSearch(tenant_id, conversation_id)

SpecBackends == InitBackends /\ [][NextBackends]_vars

-----------------------------------------------------------------------------
(* CacheService over a RedisCache whose server comes and goes *)

\* the connection to the Redis server is lost, or comes back
Reconnect ==
    /\ cache.backend = "redis"
    /\ cache' = [cache EXCEPT !.reachable = ~@]
    /\ UNCHANGED <<timeVars, storeVars, callerVars, mwVars, restVars,
                   cacheStore, calls, backendCalls, written, reply>>

\* CacheService.__init__ over a RedisCache: redis.from_url opens no connection
InitOutage ==
    /\ InitTime
    /\ limiter = "memory"
    /\ windows = <<>>
    /\ redis = <<>>
    /\ limit = RateLimitConfig(0, 0)
    /\ NoCallers
    /\ NoMiddleware
    /\ \E enabled \in BOOLEAN, reachable \in BOOLEAN :
          cache = [installed |-> TRUE, backend |-> "redis", reachable |-> reachable,
                   enabled |-> enabled, search_ttl |-> 2, max_items |-> 3]
    /\ cacheStore = <<>>
    /\ calls = 0
    /\ backendCalls = 0
    /\ written = <<>>
    /\ reply = NoReply
    /\ NoKeys
    /\ NoStartup
    /\ NoQueue
    /\ NoWorker

NextOutage ==
    \/ Reconnect
    \/ \E key \in CacheKeys : Get(key)
    \/ \E key \in CacheKeys, value \in CacheValues : Set(key, value, <<>>)
    \/ \E tenant_id \in TenantIds, conversation_id \in ConversationIds :
          InvalidateSearch(tenant_id, conversation_id)

SpecOutage == InitOutage /\ [][NextOutage]_vars

-----------------------------------------------------------------------------
(* The key functions, applied to the requests of several callers *)

MaxKeys == 3

\* the arguments of search_key
SearchRequests ==
    [tenant_id : {<<"a">>, <<"b">>},
     conversation_id : {<<>>, <<"c">>},
     query : {<<"q">>},
     top_k : {1, 12},
     candidate_limit : {2, 23}]

\* the argument of embedding_key, and the tenant on whose behalf it is called
EmbeddingRequests == [tenant_id : {<<"a">>, <<"b">>}, text : {<<"q">>, <<"x">>}]

\* key = cache.search_key(tenant_id=..., conversation_id=..., query=..., top_k=..., candidate_limit=...)
SearchKeyCall(request) ==
    /\ Cardinality(computed) < MaxKeys
    /\ computed' = computed \cup
          {[fn |-> "search_key", args |-> request,
            key |-> SearchKey(request.tenant_id, request.conversation_id, request.query,
                              request.top_k, request.candidate_limit)]}
    /\ UNCHANGED <<timeVars, storeVars, callerVars, mwVars, cacheVars, queueVars, workerVars, startVars>>

\* key = cache.embedding_key(text)
EmbeddingKeyCall(request) ==
    /\ Cardinality(computed) < MaxKeys
    /\ computed' = computed \cup
          {[fn |-> "embedding_key", args |-> request, key |-> EmbeddingKey(request.text)]}
    /\ UNCHANGED <<timeVars, storeVars, callerVars, mwVars, cacheVars, queueVars, workerVars, startVars>>

InitKeys ==
    /\ InitTime
    /\ limiter = "memory"
    /\ windows = <<>>
    /\ redis = <<>>
    /\ limit = RateLimitConfig(0, 0)
    /\ NoCallers
    /\ NoMiddleware
    /\ NoCache
    /\ NoKeys
    /\ NoStartup
    /\ NoQueue
    /\ NoWorker

NextKeys ==
    \/ \E request \in SearchRequests : SearchKeyCall(request)
    \/ \E request \in EmbeddingRequests : EmbeddingKeyCall(request)

SpecKeys == InitKeys /\ [][NextKeys]_vars

-----------------------------------------------------------------------------
(* EmbeddingJobRecord and the repository *)

MaxRecords == 3

MaxDrains == 2

MaxStarts == 2

Queues == {"q1", "q2"}

\* a record as the message-ingestion handler creates it; generated counts the
\* generation calls made for it, outcome tells how the last one ended, claimant
\* names the queue that claimed it
NewRecord ==
    [embedding_status |-> "pending", embedding |-> None, generated |-> 0,
     outcome |-> None, claimant |-> None]

Pending(recs) == {id \in 1..Len(recs) : recs[id].embedding_status = "pending"}

Terminal(status) == status \in {"completed", "failed"}

\* the ids of a set, in ascending order
RECURSIVE Ascending(_)
Ascending(ids) ==
    IF ids = {} THEN <<>>
    ELSE LET least == CHOOSE a \in ids : \A b \in ids : a <= b
         IN  <<least>> \o Ascending(ids \ {least})

ClaimUnconditional(recs, id, q) ==
    [ok |-> TRUE,
     records |-> [recs EXCEPT ![id].embedding_status = "processing", ![id].claimant = q]]

\* the repository's claim: the conditional update from pending to processing
Claim(recs, id, q) ==
    IF recs[id].embedding_status = "pending"
    THEN [ok |-> TRUE,
          records |-> [recs EXCEPT ![id].embedding_status = "processing", ![id].claimant = q]]
    ELSE [ok |-> FALSE, records |-> recs]

PersistFailureAsPending(recs, id, succeeded) ==
    [recs EXCEPT ![id].generated = @ + 1,
                 ![id].outcome = IF succeeded THEN "returned" ELSE "raised",
                 ![id].embedding_status = IF succeeded THEN "completed" ELSE "pending",
                 ![id].embedding = IF succeeded THEN "vector" ELSE None]

\* one record processed: the generation call, then completed with the vector,
\* or failed when the call raised
Process(recs, id, succeeded) ==
    [recs EXCEPT ![id].generated = @ + 1,
                 ![id].outcome = IF succeeded THEN "returned" ELSE "raised",
                 ![id].embedding_status = IF succeeded THEN "completed" ELSE "failed",
                 ![id].embedding = IF succeeded THEN "vector" ELSE None]

\* the handler marks a new record pending
Enqueue ==
    /\ Len(records) < MaxRecords
    /\ records' = Append(records, NewRecord)
    /\ UNCHANGED <<timeVars, storeVars, callerVars, mwVars, cacheVars, keyVars, jobs, workerVars, startVars>>

-----------------------------------------------------------------------------
(* EmbeddingJobQueue.drain_once *)

\* the sum of a counter over the queues
RECURSIVE Total(_, _)
Total(field, qs) ==
    IF qs = {} THEN 0
    ELSE LET q == CHOOSE x \in qs : TRUE
         IN  jobs[q][field] + Total(field, qs \ {q})

\* a queue as constructed: no loop, no pass
NewQueue ==
    [pass_pc |-> "idle", todo |-> <<>>, at_call |-> {}, pass_current |-> 0,
     processed |-> {}, returned |-> -1, drains |-> 0,
     running |-> FALSE, tasks |-> 0, stop |-> FALSE, loop_pc |-> "none",
     loop_current |-> 0, starts |-> 0, ignored |-> FALSE, stop_during |-> 0]

RemainingNow(q) == Ascending(Pending(records))

\* what is left of the pass: the records found pending when drain_once was called
Remaining(q) == jobs[q].todo

\* drain_once is called: it reads the pending records
DrainOnce(q) ==
    /\ q \in DOMAIN jobs
    /\ jobs[q].pass_pc = "idle"
    /\ Total("drains", DOMAIN jobs) < MaxDrains
    /\ jobs' = [jobs EXCEPT ![q].pass_pc = "draining",
                            ![q].todo = Ascending(Pending(records)),
                            ![q].at_call = Pending(records),
                            ![q].processed = {},
                            ![q].returned = -1,
                            ![q].drains = @ + 1]
    /\ UNCHANGED <<timeVars, storeVars, callerVars, mwVars, cacheVars, keyVars, records, workerVars, startVars>>

\* the pass takes its next record and claims it
PassClaim(q) ==
    /\ q \in DOMAIN jobs
    /\ jobs[q].pass_pc = "draining"
    /\ Remaining(q) # <<>>
    /\ LET id == Head(Remaining(q))
           c == Claim(records, id, q)
       IN  /\ records' = c.records
           /\ jobs' = [jobs EXCEPT ![q].todo = Tail(Remaining(q)),
                                   ![q].pass_pc = IF c.ok THEN "item" ELSE "draining",
                                   ![q].pass_current = IF c.ok THEN id ELSE 0]
    /\ UNCHANGED <<timeVars, storeVars, callerVars, mwVars, cacheVars, keyVars, workerVars, startVars>>

\* the generation call for the claimed record returns or raises
PassProcess(q, succeeded) ==
    /\ q \in DOMAIN jobs
    /\ jobs[q].pass_pc = "item"
    /\ records' = Process(records, jobs[q].pass_current, succeeded)
    /\ jobs' = [jobs EXCEPT ![q].pass_pc = "draining",
                            ![q].processed = @ \cup {jobs[q].pass_current},
                            ![q].pass_current = 0]
    /\ UNCHANGED <<timeVars, storeVars, callerVars, mwVars, cacheVars, keyVars, workerVars, startVars>>

\* drain_once returns the number of records it processed
PassReturn(q) ==
    /\ q \in DOMAIN jobs
    /\ jobs[q].pass_pc = "draining"
    /\ Remaining(q) = <<>>
    /\ jobs' = [jobs EXCEPT ![q].pass_pc = "idle",
                            ![q].returned = Cardinality(jobs[q].processed)]
    /\ UNCHANGED <<timeVars, storeVars, callerVars, mwVars, cacheVars, keyVars, records, workerVars, startVars>>

\* everything but the queue and the worker, before any of it is used
Quiet ==
    /\ InitTime
    /\ limiter = "memory"
    /\ windows = <<>>
    /\ redis = <<>>
    /\ limit = RateLimitConfig(0, 0)
    /\ NoCallers
    /\ NoMiddleware
    /\ NoCache
    /\ NoKeys

\* one queue, constructed over a repository that may hold pending records
InitDrain ==
    /\ Quiet
    /\ NoStartup
    /\ records \in {<<>>, <<NewRecord>>, <<NewRecord, NewRecord>>}
    /\ jobs = [q \in {"q1"} |-> NewQueue]
    /\ NoWorker

NextDrain ==
    \/ Enqueue
    \/ \E q \in Queues : DrainOnce(q)
    \/ \E q \in Queues : PassClaim(q)
    \/ \E q \in Queues, succeeded \in BOOLEAN : PassProcess(q, succeeded)
    \/ \E q \in Queues : PassReturn(q)

SpecDrain == InitDrain /\ [][NextDrain]_vars

-----------------------------------------------------------------------------
(* EmbeddingJobQueue.start, the drain loop, EmbeddingJobQueue.stop *)

NeverRunning(q) == FALSE

\* start() finds the loop running already
AlreadyRunning(q) == jobs[q].running

\* the queues after start() on q: the drain loop begun unless it runs already;
\* ignored tells that a call found it running
Started(q) ==
    IF AlreadyRunning(q)
    THEN [jobs EXCEPT ![q].starts = @ + 1, ![q].ignored = TRUE]
    ELSE [jobs EXCEPT ![q].starts = @ + 1,
                      ![q].running = TRUE,
                      ![q].tasks = @ + 1,
                      ![q].stop = FALSE,
                      ![q].stop_during = 0,
                      ![q].loop_pc = "poll",
                      ![q].loop_current = 0]

\* start()
Start(q) ==
    /\ q \in DOMAIN jobs
    /\ Total("starts", DOMAIN jobs) < MaxStarts
    /\ jobs' = Started(q)
    /\ UNCHANGED <<timeVars, storeVars, callerVars, mwVars, cacheVars, keyVars, records, workerVars, startVars>>

\* the loop, between two items and with no stop signal seen, tries the claim on a
\* record it found; the repository grants it if the record is pending still
LoopClaim(q) ==
    /\ q \in DOMAIN jobs
    /\ jobs[q].loop_pc = "poll"
    /\ ~jobs[q].stop
    /\ \E id \in 1..Len(records) :
          LET c == Claim(records, id, q)
          IN  /\ c.ok
              /\ records' = c.records
              /\ jobs' = [jobs EXCEPT ![q].loop_pc = "item", ![q].loop_current = id]
    /\ UNCHANGED <<timeVars, storeVars, callerVars, mwVars, cacheVars, keyVars, workerVars, startVars>>

\* the generation call of the loop's record returns or raises
LoopProcess(q, succeeded) ==
    /\ q \in DOMAIN jobs
    /\ jobs[q].loop_pc = "item"
    /\ records' = Process(records, jobs[q].loop_current, succeeded)
    /\ jobs' = [jobs EXCEPT ![q].loop_pc = "poll", ![q].loop_current = 0]
    /\ UNCHANGED <<timeVars, storeVars, callerVars, mwVars, cacheVars, keyVars, workerVars, startVars>>

\* the queues after stop() on q: the signal to the loop; stop_during notes the
\* record in flight then
Stopped(q) == [jobs EXCEPT ![q].stop = TRUE, ![q].stop_during = jobs[q].loop_current]

\* stop()
Stop(q) ==
    /\ q \in DOMAIN jobs
    /\ jobs[q].running
    /\ ~jobs[q].stop
    /\ jobs' = Stopped(q)
    /\ UNCHANGED <<timeVars, storeVars, callerVars, mwVars, cacheVars, keyVars, records, workerVars, startVars>>

ExitsAnywhere(q) == TRUE

\* the loop looks at the stop signal between two items only
BetweenItems(q) == jobs[q].loop_pc = "poll"

\* the loop sees the stop signal and exits
LoopExit(q) ==
    /\ q \in DOMAIN jobs
    /\ jobs[q].running
    /\ jobs[q].stop
    /\ BetweenItems(q)
    /\ jobs' = [jobs EXCEPT ![q].running = FALSE,
                            ![q].tasks = @ - 1,
                            ![q].loop_pc = "none",
                            ![q].loop_current = 0]
    /\ UNCHANGED <<timeVars, storeVars, callerVars, mwVars, cacheVars, keyVars, records, workerVars, startVars>>

\* two queues (two worker processes) over one repository
InitQueues ==
    /\ Quiet
    /\ NoStartup
    /\ records = <<>>
    /\ jobs = [q \in Queues |-> NewQueue]
    /\ NoWorker

\* one queue and its drain loop
InitLoop ==
    /\ Quiet
    /\ NoStartup
    /\ records \in {<<>>, <<NewRecord>>}
    /\ jobs = [q \in {"q1"} |-> NewQueue]
    /\ NoWorker

NextLoop ==
    \/ Enqueue
    \/ \E q \in Queues : Start(q)
    \/ \E q \in Queues : LoopClaim(q)
    \/ \E q \in Queues, succeeded \in BOOLEAN : LoopProcess(q, succeeded)
    \/ \E q \in Queues : Stop(q)
    \/ \E q \in Queues : LoopExit(q)

SpecLoop == InitLoop /\ [][NextLoop]_vars

\* the event loop runs every task that can run: a claim that stays possible is
\* made, and a generation call comes back
FairLoops ==
    \A q \in Queues :
        /\ WF_vars(LoopClaim(q))
        /\ WF_vars(\E succeeded \in BOOLEAN : LoopProcess(q, succeeded))

\* two queues, each with its drain loop, over one repository
SpecQueues == InitQueues /\ [][NextLoop]_vars /\ FairLoops

-----------------------------------------------------------------------------
(* worker.py: run and _serve *)

MaxSignals == 2

\* for sig in (signal.SIGINT, signal.SIGTERM)
Signals == <<"SIGINT", "SIGTERM">>

\* the worker process at the call of run(): supported tells whether the event
\* loop of the platform implements add_signal_handler; pending is the scheduled
\* call of _handle_stop; caught_at is where _serve stood when the first signal
\* came with every handler registered
NewWorker(async_embeddings, supported) ==
    [pc |-> "run", async_embeddings |-> async_embeddings, supported |-> supported,
     to_register |-> Signals, handlers |-> {}, pending |-> FALSE,
     stop_event |-> FALSE, received |-> 0, caught_at |-> "none", logged |-> {},
     start_calls |-> 0, start_returned |-> FALSE, stop_calls |-> 0]

AsyncNeverDisabled == FALSE

\* if not settings.async_embeddings
AsyncDisabled == ~worker.async_embeddings

\* run(): reads the settings; logs the error and returns, or constructs the
\* queue and enters asyncio.run(_serve(queue))
Run ==
    /\ worker.pc = "run"
    /\ IF AsyncDisabled
       THEN /\ worker' = [worker EXCEPT !.pc = "returned",
                                        !.logged = @ \cup {"async_embeddings_disabled"}]
            /\ jobs' = jobs
       ELSE /\ worker' = [worker EXCEPT !.pc = "serve"]
            /\ jobs' = [q \in {"q1"} |-> NewQueue]
    /\ UNCHANGED <<timeVars, storeVars, callerVars, mwVars, cacheVars, keyVars, records, startVars>>

\* loop.add_signal_handler(sig, _handle_stop) under suppress(NotImplementedError)
Register ==
    /\ worker.pc = "serve"
    /\ worker.to_register # <<>>
    /\ worker' = [worker EXCEPT !.to_register = Tail(@),
                                !.handlers = IF worker.supported
                                             THEN @ \cup {Head(worker.to_register)}
                                             ELSE @]
    /\ UNCHANGED <<timeVars, storeVars, callerVars, mwVars, cacheVars, keyVars, queueVars, startVars>>

\* the process lives: asyncio.run has not ended
Alive == worker.pc \in {"serve", "starting", "waiting", "stopping"}

\* the process receives a signal: with a handler registered the event loop
\* schedules _handle_stop; without one SIGINT raises KeyboardInterrupt out of
\* asyncio.run, which run() catches and logs, and SIGTERM ends the process
Signal(sig) ==
    /\ Alive
    /\ worker.received < MaxSignals
    /\ IF sig \in worker.handlers
       THEN worker' = [worker EXCEPT !.received = @ + 1,
                                     !.pending = TRUE,
                                     !.caught_at =
                                         IF @ = "none" /\ worker.to_register = <<>>
                                         THEN worker.pc ELSE @]
       ELSE IF sig = "SIGINT"
       THEN worker' = [worker EXCEPT !.received = @ + 1,
                                     !.pc = "interrupted",
                                     !.logged = @ \cup {"worker_shutdown_requested"}]
       ELSE worker' = [worker EXCEPT !.received = @ + 1, !.pc = "killed"]
    /\ UNCHANGED <<timeVars, storeVars, callerVars, mwVars, cacheVars, keyVars, queueVars, startVars>>

\* _handle_stop, run by the event loop while _serve is suspended in an await
HandleStop ==
    /\ worker.pc \in {"starting", "waiting", "stopping"}
    /\ worker.pending
    /\ worker' = [worker EXCEPT !.pending = FALSE, !.stop_event = TRUE]
    /\ UNCHANGED <<timeVars, storeVars, callerVars, mwVars, cacheVars, keyVars, queueVars, startVars>>

\* await queue.start(): the call
ServeStart ==
    /\ worker.pc = "serve"
    /\ worker.to_register = <<>>
    /\ worker' = [worker EXCEPT !.pc = "starting", !.start_calls = @ + 1]
    /\ jobs' = Started("q1")
    /\ UNCHANGED <<timeVars, storeVars, callerVars, mwVars, cacheVars, keyVars, records, startVars>>

\* await queue.start(): the return
ServeStarted ==
    /\ worker.pc = "starting"
    /\ worker' = [worker EXCEPT !.pc = "waiting", !.start_returned = TRUE]
    /\ UNCHANGED <<timeVars, storeVars, callerVars, mwVars, cacheVars, keyVars, queueVars, startVars>>

StopRequestedAlways == TRUE

\* await stop_event.wait() returns once the event is set
StopRequested == worker.stop_event

\* await stop_event.wait() returns and queue.stop() is called
ServeStop ==
    /\ worker.pc = "waiting"
    /\ StopRequested
    /\ worker' = [worker EXCEPT !.pc = "stopping", !.stop_calls = @ + 1]
    /\ jobs' = Stopped("q1")
    /\ UNCHANGED <<timeVars, storeVars, callerVars, mwVars, cacheVars, keyVars, records, startVars>>

\* queue.stop() returns when the loop has exited; _serve and run() return
ServeStopped ==
    /\ worker.pc = "stopping"
    /\ ~jobs["q1"].running
    /\ worker' = [worker EXCEPT !.pc = "returned"]
    /\ UNCHANGED <<timeVars, storeVars, callerVars, mwVars, cacheVars, keyVars, queueVars, startVars>>

\* a worker process at the call of run(), one record waiting in the repository
InitWorker ==
    /\ Quiet
    /\ NoStartup
    /\ records = <<NewRecord>>
    /\ jobs = <<>>
    /\ worker \in {NewWorker(a, s) : a \in BOOLEAN, s \in BOOLEAN}

\* the drain loop of the worker's queue runs as a task of the living process
NextWorker ==
    \/ Run
    \/ Register
    \/ \E sig \in {"SIGINT", "SIGTERM"} : Signal(sig)
    \/ HandleStop
    \/ ServeStart
    \/ ServeStarted
    \/ ServeStop
    \/ ServeStopped
    \/ Alive /\ LoopClaim("q1")
    \/ Alive /\ \E succeeded \in BOOLEAN : LoopProcess("q1", succeeded)
    \/ Alive /\ LoopExit("q1")

SpecWorker == InitWorker /\ [][NextWorker]_vars

\* the interpreter and the event loop go on running what can run
FairWorker ==
    /\ WF_vars(Run)
    /\ WF_vars(Register)
    /\ WF_vars(HandleStop)
    /\ WF_vars(ServeStart)
    /\ WF_vars(ServeStarted)
    /\ WF_vars(ServeStop)
    /\ WF_vars(ServeStopped)
    /\ WF_vars(Alive /\ \E succeeded \in BOOLEAN : LoopProcess("q1", succeeded))
    /\ WF_vars(Alive /\ LoopExit("q1"))

SpecServe == InitWorker /\ [][NextWorker]_vars /\ FairWorker

-----------------------------------------------------------------------------
(* Backend selection: _build_limiter, get_rate_limiter, _default_backend *)

Environments == {"production", "Production", "development"}

\* str.lower() on the environment names
Lower(environment) == IF environment = "Production" THEN "production" ELSE environment

\* the settings backend selection reads
StartupSettings ==
    [redis_url : {None, "", "redis://store"},
     environment : Environments,
     require_redis_in_production : BOOLEAN]

\* settings.environment.lower() == "production" and settings.require_redis_in_production
ProductionStrict(settings) ==
    Lower(settings.environment) = "production" /\ settings.require_redis_in_production

\* _build_limiter(); constructs tells whether RedisRateLimiter(url) returns or
\* raises. The result is the limiter returned, or the exception raised.
BuildLimiter(settings, constructs) ==
    IF Truthy(settings.redis_url) /\ constructs
    THEN [raised |-> FALSE, backend |-> "redis",
          logged |-> <<"rate_limit_redis_backend_enabled">>]
    ELSE IF Truthy(settings.redis_url) /\ ProductionStrict(settings)
    THEN [raised |-> TRUE, backend |-> "none",
          logged |-> <<"rate_limit_redis_backend_failed">>]
    ELSE [raised |-> FALSE, backend |-> "memory",
          logged |-> (IF Truthy(settings.redis_url)
                      THEN <<"rate_limit_redis_backend_failed">> ELSE <<>>)
                     \o <<"rate_limit_in_memory_backend_enabled">>]

\* _default_backend(); constructs tells whether RedisCache(url) returns or raises
DefaultBackend(settings, constructs) ==
    IF Truthy(settings.redis_url)
    THEN IF constructs
         THEN [raised |-> FALSE, backend |-> "redis"]
         ELSE [raised |-> TRUE, backend |-> "none"]
    ELSE IF ProductionStrict(settings)
    THEN [raised |-> TRUE, backend |-> "none"]
    ELSE [raised |-> FALSE, backend |-> "memory"]

\* the call made last, with what it returned
Called(op, constructs, built, raised, backend) ==
    [op |-> op, constructs |-> constructs, built |-> built,
     raised |-> raised, backend |-> backend]

\* get_rate_limiter(): builds the limiter on the first call and keeps it
GetRateLimiter(constructs) ==
    /\ startup.pc = "up"
    /\ IF startup.limiter = "none"
       THEN LET b == BuildLimiter(startup.settings, constructs)
            IN  startup' = [startup EXCEPT
                              !.limiter = b.backend,
                              !.last = Called("get_rate_limiter", constructs, TRUE,
                                              b.raised, b.backend)]
       ELSE startup' = [startup EXCEPT
                          !.last = Called("get_rate_limiter", constructs, FALSE,
                                          FALSE, startup.limiter)]
    /\ UNCHANGED <<timeVars, storeVars, callerVars, mwVars, cacheVars, keyVars, queueVars, workerVars>>

\* reset_rate_limiter_cache(): builds the limiter anew; the old one stays when
\* _build_limiter raises
ResetRateLimiterCache(constructs) ==
    /\ startup.pc = "up"
    /\ LET b == BuildLimiter(startup.settings, constructs)
       IN  startup' = [startup EXCEPT
                         !.limiter = IF b.raised THEN @ ELSE b.backend,
                         !.last = Called("reset_rate_limiter_cache", constructs, TRUE,
                                         b.raised, b.backend)]
    /\ UNCHANGED <<timeVars, storeVars, callerVars, mwVars, cacheVars, keyVars, queueVars, workerVars>>

\* CacheService() with no backend given: self.backend = _default_backend()
NewCacheService(constructs) ==
    /\ startup.pc = "up"
    /\ LET b == DefaultBackend(startup.settings, constructs)
       IN  startup' = [startup EXCEPT
                         !.cache_backend = b.backend,
                         !.last = Called("CacheService", constructs, TRUE,
                                         b.raised, b.backend)]
    /\ UNCHANGED <<timeVars, storeVars, callerVars, mwVars, cacheVars, keyVars, queueVars, workerVars>>

\* a process with its settings read and nothing built
InitStartup ==
    /\ Quiet
    /\ NoQueue
    /\ NoWorker
    /\ \E settings \in StartupSettings :
          startup = [pc |-> "up", settings |-> settings, limiter |-> "none",
                     cache_backend |-> "none",
                     last |-> Called("none", FALSE, FALSE, FALSE, "none")]

NextStartup ==
    \/ \E constructs \in BOOLEAN : GetRateLimiter(constructs)
    \/ \E constructs \in BOOLEAN : ResetRateLimiterCache(constructs)
    \/ \E constructs \in BOOLEAN : NewCacheService(constructs)

SpecStartup == InitStartup /\ [][NextStartup]_vars

-----------------------------------------------------------------------------
(* _parse_limit on limit strings, as RateLimitMiddleware.__init__ calls it *)

MaxLen == 4

\* a limit string is a sequence of tokens: a blank, a digit, a slash, or a word
Alphabet == {" ", "0", "2", "/", "per", "minute", "Second", "s", "abc"}

Digits == {"0", "1", "2"}

\* the strings of the tests and of the units the alphabet leaves out
Examples ==
    {<<"2", "0", "0", "/", "minute">>,
     <<"1", "0", " ", "per", " ", "second">>,
     <<"abc">>,
     <<"1", "0", "0", "/", "minute">>,
     <<" ", "2", " ", "/", " ", "PER", " ", " ", "HOUR", "S", " ">>,
     <<"1", "day", "s">>,
     <<"0", "1", "/", "hour">>,
     <<"2", "/", "per", "minute">>,
     <<"2", "minute", "s", "s">>}

\* every string of MaxLen tokens at most, and the examples
LimitStrings == (UNION {[1..n -> Alphabet] : n \in 0..MaxLen}) \cup Examples

\* str.lower() on the words of a limit string
LowerWord(word) ==
    CASE word = "Second" -> "second"
      [] word = "PER" -> "per"
      [] word = "HOUR" -> "hour"
      [] word = "S" -> "s"
      [] OTHER -> word

Units == {"second", "minute", "hour", "day"}

\* \s*: the string without its leading blanks
RECURSIVE DropBlanks(_)
DropBlanks(str) ==
    IF str # <<>> /\ Head(str) = " " THEN DropBlanks(Tail(str)) ELSE str

\* (\d+): the leading run of digits
RECURSIVE TakeDigits(_)
TakeDigits(str) ==
    IF str # <<>> /\ Head(str) \in Digits THEN <<Head(str)>> \o TakeDigits(Tail(str)) ELSE <<>>

\* int() of a run of digits
RECURSIVE IntOf(_)
IntOf(digits) ==
    IF digits = <<>> THEN 0
    ELSE LET d == digits[Len(digits)]
             v == IF d = "0" THEN 0 ELSE IF d = "1" THEN 1 ELSE 2
         IN  10 * IntOf(SubSeq(digits, 1, Len(digits) - 1)) + v

\* the pattern after the amount: (?:/|\s*/?\s*per\s+)?\s*(unit)s?\s*$ with
\* re.IGNORECASE, which is blanks, an optional slash, blanks, an optional "per"
\* followed by a blank at least, the unit, an optional s, blanks. The result is
\* the unit matched, None when the string does not match.
UnitMatched(rest) ==
    LET r1 == DropBlanks(rest)
        r2 == IF r1 # <<>> /\ Head(r1) = "/" THEN DropBlanks(Tail(r1)) ELSE r1
        per == r2 # <<>> /\ LowerWord(Head(r2)) = "per"
        r3 == IF per THEN Tail(r2) ELSE r2
        r4 == DropBlanks(r3)
        r5 == IF r4 = <<>> THEN <<>> ELSE Tail(r4)
        r6 == IF r5 # <<>> /\ LowerWord(Head(r5)) = "s" THEN Tail(r5) ELSE r5
    IN  IF /\ per => (r3 # <<>> /\ Head(r3) = " ")
           /\ r4 # <<>>
           /\ LowerWord(Head(r4)) \in Units
           /\ DropBlanks(r6) = <<>>
        THEN LowerWord(Head(r4))
        ELSE None

\* _parse_limit: the config, or ValueError raised
ParseLimitText(limit_str) ==
    LET body == DropBlanks(limit_str)
        digits == TakeDigits(body)
        unit == UnitMatched(SubSeq(body, Len(digits) + 1, Len(body)))
    IN  IF digits = <<>> \/ unit = None
        THEN [raised |-> TRUE, config |-> RateLimitConfig(0, 0)]
        ELSE [raised |-> FALSE, config |-> RateLimitConfig(IntOf(digits), UnitSeconds(unit))]

\* settings.global_rate_limit
DefaultGlobalRateLimit == <<"1", "0", "0", "/", "minute">>

\* RateLimitMiddleware.__init__(app, rate_limit): the limit string is the
\* argument, or the setting when the argument is empty; a string that does not
\* parse raises out of the constructor
NewMiddleware ==
    /\ ~mw.installed
    /\ ~mw.called
    /\ LET limit_str == IF mw.rate_limit = <<>> THEN DefaultGlobalRateLimit ELSE mw.rate_limit
           parsed == ParseLimitText(limit_str)
       IN  mw' = [mw EXCEPT !.called = TRUE,
                            !.installed = ~parsed.raised,
                            !.global_limit_str = limit_str,
                            !.raised = parsed.raised,
                            !.global_limit = parsed.config]
    /\ UNCHANGED <<timeVars, storeVars, callerVars, cacheVars, restVars, slot, last, entered>>

\* the application about to install the middleware with some limit string
InitParse ==
    /\ InitTime
    /\ limiter = "memory"
    /\ windows = <<>>
    /\ redis = <<>>
    /\ limit = RateLimitConfig(0, 0)
    /\ NoCallers
    /\ \E rate_limit \in LimitStrings :
          mw = [installed |-> FALSE, called |-> FALSE, rate_limit |-> rate_limit,
                global_limit_str |-> <<>>, raised |-> FALSE,
                global_limit |-> RateLimitConfig(0, 0)]
    /\ slot = [r \in Slots |-> Idle]
    /\ last = Idle
    /\ entered = 0
    /\ NoCache
    /\ NoKeys
    /\ NoStartup
    /\ NoQueue
    /\ NoWorker

NextParse == NewMiddleware

SpecParse == InitParse /\ [][NextParse]_vars

-----------------------------------------------------------------------------
(* Properties of the limiter *)

\* the hit that opened the fixed window hit j of history h falls in: a window
\* starts at the first hit and lasts w ticks from the hit that opened it
RECURSIVE MemAnchor(_, _, _)
MemAnchor(h, j, w) ==
    IF j = 1 THEN 1
    ELSE LET a == MemAnchor(h, j - 1, w)
         IN  IF h[j].now < h[a].now + w THEN a ELSE j

\* the same for the Redis backend, whose key lives until the server's clock
\* has passed the expiry set when the key was created
RECURSIVE RedisAnchor(_, _, _)
RedisAnchor(h, j, w_ms) ==
    IF j = 1 THEN 1
    ELSE LET a == RedisAnchor(h, j - 1, w_ms)
         IN  IF h[j].at <= h[a].at + w_ms THEN a ELSE j

InFirstWindow(h, n, w) == \A i \in 1..n : h[i].now < h[1].now + w

\* C1: starting from an empty limiter, the first `amount` hits of a key made
\* within one window are allowed and return counts 1..amount, and hit number
\* amount+1 within that window is rejected with count amount+1.
C1_FirstHitsAllowedThenRejected ==
    \A key \in DOMAIN memHits :
        LET h == memHits[key]
        IN  \A n \in 1..Len(h) :
                (n <= limit.amount + 1 /\ InFirstWindow(h, n, WindowTicks(limit)))
                    => (h[n].count = n /\ h[n].allowed = (n <= limit.amount))

C1_Witness ==
    \E key \in DOMAIN memHits :
        LET h == memHits[key]
        IN  /\ Len(h) = limit.amount + 1
            /\ InFirstWindow(h, Len(h), WindowTicks(limit))
            /\ h[limit.amount].allowed
            /\ ~h[Len(h)].allowed
            /\ h[Len(h)].count = limit.amount + 1

C3_FixedWindowResets ==
    \A key \in DOMAIN memHits :
        LET h == memHits[key]
        IN  \A j \in 1..Len(h) :
                MemAnchor(h, j, WindowTicks(limit)) = j
                    => (h[j].count = 1 /\ h[j].allowed)

\* C4: every hit, on either backend, returns a reset_epoch_ms strictly greater
\* than the time of the call in milliseconds.
C4_ResetAfterNow ==
    /\ \A key \in DOMAIN memHits :
          \A j \in 1..Len(memHits[key]) :
              memHits[key][j].reset_epoch_ms > ToMs(memHits[key][j].now)
    /\ \A key \in DOMAIN redisHits :
          \A j \in 1..Len(redisHits[key]) :
              redisHits[key][j].returned
                  => redisHits[key][j].reset_epoch_ms > ToMs(redisHits[key][j].now)

-----------------------------------------------------------------------------
(* Properties of the middleware *)

\* the operational paths: health, readiness, metrics, docs, openapi
OperationalPaths ==
    {"/v1/admin/health", "/v1/admin/readiness", "/metrics", "/docs", "/openapi.json"}

\* dispatch has returned for a request that was subject to the limits
Checked == last.stage = "done" /\ last.path \notin OperationalPaths

\* the limiter was called for the tenant of the finished request
TenantHit == last.tenant_state # NoResult

\* both limiters let the finished request through
Admitted ==
    /\ last.global_state.count >= 1
    /\ last.global_state.allowed
    /\ Truthy(last.tenant_id) => (TenantHit /\ last.tenant_state.allowed)

\* C5: a request on a path that is not bypassed reaches the handler if and only
\* if the global hit is allowed and, when a tenant was resolved, the tenant hit
\* is allowed too; otherwise the handler is not invoked and the response is a
\* 429 with Retry-After and X-Request-ID. With a global limit of 1 per minute
\* the first request of a caller passes the global check and the second is
\* rejected.
C5_ForwardedIffAllowed ==
    Checked =>
        /\ last.forwarded <=> Admitted
        /\ ~last.forwarded =>
              /\ last.response.status = 429
              /\ {"Retry-After", "X-Request-ID"} \subseteq DOMAIN last.response.headers
              /\ last.response.headers["Retry-After"] >= 1
        /\ last.forwarded => last.response.status # 429
        /\ mw.global_limit_str = <<1, "/", "minute">> =>
              /\ last.global_state.count = 1 => last.forwarded
              /\ last.global_state.count >= 2 =>
                    (~last.forwarded /\ last.response.status = 429)

C5_Witness ==
    /\ Checked
    /\ mw.global_limit_str = <<1, "/", "minute">>
    /\ entered = 2
    /\ last.global_state.count = 2
    /\ ~last.forwarded
    /\ last.response.status = 429
    /\ last.response.headers["X-Request-ID"] = "unknown"

\* C6: the tenant limiter is hit only for a request with a resolved tenant;
\* a rejected request carries the detail "Tenant rate limit exceeded ..." with
\* the tenant limit string exactly when the tenant limiter rejected it, and the
\* global template otherwise. With tenant limit 2/minute under global limit
\* 100/minute the first two requests of a tenant pass and the third is
\* rejected with the tenant detail.
C6_TenantRejectionDistinct ==
    /\ \A r \in DOMAIN slot :
          (slot[r].stage = "tenant" \/ slot[r].tenant_state # NoResult)
              => Truthy(slot[r].tenant_id)
    /\ Checked =>
          /\ TenantHit => Truthy(last.tenant_id)
          /\ ~last.forwarded =>
                IF TenantHit /\ ~last.tenant_state.allowed
                THEN /\ Head(last.response.detail) = "Tenant rate limit exceeded for "
                     /\ last.response.detail[Len(last.response.detail)] = mw.tenant_limit_str
                     /\ last.response.detail[2] = last.tenant_id
                ELSE last.response.detail = <<"Rate limit exceeded: ", mw.global_limit_str>>
          /\ (/\ mw.tenant_limit_str = <<2, "/", "minute">>
              /\ mw.global_limit_str = <<100, "/", "minute">>
              /\ TenantHit) =>
                /\ last.tenant_state.count <= 2 => last.forwarded
                /\ last.tenant_state.count = 3 =>
                      /\ ~last.forwarded
                      /\ Head(last.response.detail) = "Tenant rate limit exceeded for "

C6_Witness ==
    /\ Checked
    /\ mw.tenant_limit_str = <<2, "/", "minute">>
    /\ mw.global_limit_str = <<100, "/", "minute">>
    /\ last.tenant_state.count = 3
    /\ last.global_state.allowed
    /\ last.response.status = 429
    /\ Head(last.response.detail) = "Tenant rate limit exceeded for "

\* C7: a request to an operational path is always forwarded and never answered
\* 429, no counter of the limiter (global or tenant) changes in its dispatch,
\* and it never stands in line for a limiter call.
C7_OperationalPathsBypass ==
    /\ [](\A r \in DOMAIN slot : slot[r].path \notin OperationalPaths)
    /\ [][(last' # last /\ last'.path \in OperationalPaths) =>
              /\ windows' = windows
              /\ redis' = redis
              /\ last'.forwarded
              /\ last'.response.status # 429
              /\ last'.global_state = NoResult
              /\ last'.tenant_state = NoResult]_vars

\* an operational request served while a counter stands above its limit
C7_Witness ==
    /\ last.stage = "done"
    /\ last.path \in OperationalPaths
    /\ last.forwarded
    /\ \/ \E key \in DOMAIN windows : Len(windows[key]) > key[1]
       \/ \E key \in DOMAIN redis : redis[key].value > key[2]

\* C8: a request whose body was consulted for the tenant and held none (no
\* JSON, no object, no tenant_id) carries no tenant: it goes on to the global
\* check, is never sent to the tenant limiter, and is rejected, if at all,
\* by the global limiter only.
C8_MalformedBodyIsNoTenant ==
    /\ \A r \in DOMAIN slot :
          slot[r].malformed =>
              /\ ~Truthy(slot[r].tenant_id)
              /\ slot[r].stage \in {"global", "forward"}
              /\ slot[r].tenant_state = NoResult
    /\ (last.stage = "done" /\ last.malformed) =>
          /\ ~Truthy(last.tenant_id)
          /\ last.tenant_state = NoResult
          /\ last.global_state.count >= 1
          /\ last.forwarded \/ (last.scope = "global" /\ ~last.global_state.allowed)

C8_Witness ==
    /\ last.stage = "done"
    /\ last.malformed
    /\ last.forwarded
    /\ last.response.status = 200
    /\ last.tenant_state = NoResult

-----------------------------------------------------------------------------
(* Properties of the cache *)

\* C9: with enabled = false, whatever calls were made, every get returns a
\* miss, the backend has received no call, and no step changes its store.
C9_DisabledNeverTouchesBackend ==
    /\ [](~cache.enabled =>
            /\ backendCalls = 0
            /\ written = <<>>
            /\ reply.op = "get" => reply.value = None)
    /\ [][~cache.enabled => cacheStore' = cacheStore]_vars

\* a disabled service misses a key its backend holds unexpired, after a set
\* for that key
C9_Witness ==
    /\ ~cache.enabled
    /\ calls >= 3
    /\ reply.op = "get"
    /\ reply.value = None
    /\ \E i \in 1..Len(cacheStore) :
          cacheStore[i].key = reply.key /\ cacheStore[i].expires_at > clock

\* the ttl a caller asked for: the ttl passed, the default when none was passed
RequestedTtl(ttl) == IF ttl = <<>> THEN cache.search_ttl ELSE Head(ttl)

\* C10: on an enabled service over the in-process backend, a get(k) that
\* directly follows set(k, v, ttl) at the same time returns v, and a get(k)
\* made more than ttl seconds after the last set(k, v, ttl) returns absent,
\* for every ttl passed, 0 included.
C10_SetThenGet ==
    [][(/\ cache.enabled
        /\ calls' = calls + 1
        /\ reply'.op = "get"
        /\ reply'.key \in DOMAIN written) =>
            LET w == written[reply'.key]
            IN  /\ (reply.op = "set" /\ reply.key = reply'.key /\ w.at = clock)
                      => reply'.value = w.value
                /\ clock > w.at + RequestedTtl(w.ttl) * TicksPerSecond
                      => reply'.value = None]_vars

\* C11: the in-process store never holds more than max_items entries and no
\* set fails, whatever max_items was configured and whichever keys are set.
C11_StoreBoundedSetNeverFails ==
    /\ Len(cacheStore) <= cache.max_items
    /\ ~reply.raised

\* two search_key calls whose arguments differ in top_k and in nothing else
DifferOnlyInTopK(x, y) ==
    /\ x.fn = "search_key"
    /\ y.fn = "search_key"
    /\ x.args.top_k # y.args.top_k
    /\ [x.args EXCEPT !.top_k = y.args.top_k] = y.args

\* C12: calls of search_key with identical arguments yield identical keys,
\* calls that differ only in top_k yield distinct keys, and embedding_key
\* yields the same key for the same text whichever tenant it is called for.
C12_KeysDeterministicAndDistinct ==
    \A x \in computed : \A y \in computed :
        /\ (x.fn = y.fn /\ x.args = y.args) => x.key = y.key
        /\ DifferOnlyInTopK(x, y) => x.key # y.key
        /\ (x.fn = "embedding_key" /\ y.fn = "embedding_key" /\ x.args.text = y.args.text)
              => x.key = y.key

C12_Witness ==
    /\ \E x \in computed : \E y \in computed : DifferOnlyInTopK(x, y) /\ x.key # y.key
    /\ \E x \in computed : x.fn = "embedding_key"

\* the key under which the backend in use stores the search of a tenant and
\* conversation
StoredSearchKey(tenant_id, conversation_id) ==
    LET key == SearchKey(tenant_id, conversation_id, <<"q">>, 5, 50)
    IN  IF cache.backend = "redis" THEN <<"aiml", ":">> \o key ELSE key

\* C13: invalidate_search(tenant_id, conversation_id) removes the entries
\* whose key search_key built for that tenant and conversation (the wildcard
\* when conversation_id is absent) and leaves every other entry as it was,
\* on the in-process and on the Redis backend.
C13_InvalidateExactlyItsSearches ==
    [][(cache.enabled /\ calls' = calls + 1 /\ reply'.op = "invalidate_search") =>
          LET target == StoredSearchKey(reply'.tenant_id, reply'.conversation_id)
              before == {cacheStore[i] : i \in 1..Len(cacheStore)}
              after == {cacheStore'[i] : i \in 1..Len(cacheStore')}
          IN  /\ \A e \in after : e.key # target
              /\ \A e \in before : e.key # target => e \in after]_vars

-----------------------------------------------------------------------------
(* Properties of the job queue *)

\* C14: a drain_once pass processes the records that were pending when it was
\* called, all of them and no other, and returns their number; a record that
\* becomes pending during the pass is not processed and not counted by it.
C14_DrainOnceProcessesPendingAtCall ==
    \A q \in DOMAIN jobs :
        /\ jobs[q].processed \subseteq jobs[q].at_call
        /\ jobs[q].pass_current # 0 => jobs[q].pass_current \in jobs[q].at_call
        /\ (jobs[q].pass_pc = "idle" /\ jobs[q].drains > 0) =>
              /\ jobs[q].processed = jobs[q].at_call
              /\ jobs[q].returned = Cardinality(jobs[q].at_call)

\* a pass over two pending records has returned 2, and a record that came
\* later is still pending
C14_Witness ==
    \E q \in DOMAIN jobs :
        /\ jobs[q].pass_pc = "idle"
        /\ jobs[q].drains = 1
        /\ jobs[q].at_call = {1, 2}
        /\ jobs[q].returned = 2
        /\ Len(records) = 3
        /\ records[3].embedding_status = "pending"

\* C15: when a pass has returned, each record it processed is completed with
\* its embedding if the generation call returned, and failed if the call
\* raised; a call that raised does not end the pass: the records after it are
\* processed as well.
C15_ProcessedRecordsAreTerminal ==
    \A q \in DOMAIN jobs :
        (jobs[q].pass_pc = "idle" /\ jobs[q].drains > 0) =>
            \A id \in jobs[q].at_call :
                /\ Terminal(records[id].embedding_status)
                /\ records[id].outcome = "returned" =>
                      (records[id].embedding_status = "completed" /\ records[id].embedding # None)
                /\ records[id].outcome = "raised" =>
                      (records[id].embedding_status = "failed" /\ records[id].embedding = None)
                /\ records[id].outcome # None

\* the call for the first record raised and the second was still completed
C15_Witness ==
    \E q \in DOMAIN jobs :
        /\ jobs[q].pass_pc = "idle"
        /\ jobs[q].at_call = {1, 2}
        /\ jobs[q].returned = 2
        /\ records[1].embedding_status = "failed"
        /\ records[2].embedding_status = "completed"
        /\ records[2].embedding = "vector"

\* the queues whose loop holds the record as its item
Holders(id) == {q \in DOMAIN jobs : jobs[q].loop_pc = "item" /\ jobs[q].loop_current = id}

\* some loop is running and has not been told to stop
Serving == \E q \in DOMAIN jobs : jobs[q].running /\ ~jobs[q].stop

\* C16: with two queues claiming through the repository's conditional update,
\* a record is held by one claimant at most and exactly by the one that
\* claimed it, its embedding is generated once at most and it is never
\* processed again; no record is lost: again and again no record is left in
\* processing (a claimed record reaches completed or failed), and again and
\* again no record is left pending unless no loop serves any more.
C16_ClaimedExactlyOnce ==
    /\ [](\A id \in 1..Len(records) :
            /\ records[id].generated <= 1
            /\ records[id].embedding_status = "pending" =>
                  (records[id].generated = 0 /\ Holders(id) = {})
            /\ records[id].embedding_status = "processing" =>
                  (records[id].generated = 0 /\ Holders(id) = {records[id].claimant})
            /\ Terminal(records[id].embedding_status) =>
                  (records[id].generated = 1 /\ Holders(id) = {}))
    /\ []<>(\A id \in 1..Len(records) : records[id].embedding_status # "processing")
    /\ []<>(Pending(records) = {} \/ ~Serving)

\* each of the two queues has brought a record to its end
C16_Witness ==
    /\ Len(records) >= 2
    /\ \E a \in 1..Len(records) : \E b \in 1..Len(records) :
          /\ records[a].claimant = "q1"
          /\ records[b].claimant = "q2"
          /\ Terminal(records[a].embedding_status)
          /\ Terminal(records[b].embedding_status)
          /\ records[a].generated = 1
          /\ records[b].generated = 1

\* C17: a record the loop has claimed is held by the loop until it is
\* completed or failed, so that a loop that has exited on stop leaves no
\* record in processing, the record in flight when stop was called included;
\* and once stop is signalled, the loop claims no further record: what is
\* pending stays pending.
C17_StopNeverAbandonsAnItem ==
    /\ [](\A q \in DOMAIN jobs :
            /\ \A id \in 1..Len(records) :
                  (records[id].embedding_status = "processing" /\ records[id].claimant = q)
                      => (jobs[q].running /\ Holders(id) = {q})
            /\ (~jobs[q].running /\ jobs[q].stop_during # 0) =>
                  Terminal(records[jobs[q].stop_during].embedding_status))
    /\ [][\A q \in DOMAIN jobs : \A id \in Pending(records) :
             jobs[q].stop => (records'[id].claimant # q)]_vars

\* stop came while a record was in flight: the loop has exited, that record
\* is completed or failed, and another record is still pending
C17_Witness ==
    \E q \in DOMAIN jobs :
        /\ ~jobs[q].running
        /\ jobs[q].stop
        /\ jobs[q].stop_during # 0
        /\ Terminal(records[jobs[q].stop_during].embedding_status)
        /\ Pending(records) # {}

\* C18: whatever start and stop calls were made, a queue has one drain loop
\* at most, and exactly one while it is running; a start() that finds the loop
\* running adds none.
C18_StartIsIdempotent ==
    \A q \in DOMAIN jobs :
        /\ jobs[q].tasks <= 1
        /\ jobs[q].running <=> jobs[q].tasks = 1

\* start() was called on a running queue, which still has its one loop
C18_Witness ==
    \E q \in DOMAIN jobs :
        /\ jobs[q].ignored
        /\ jobs[q].running
        /\ jobs[q].tasks = 1

-----------------------------------------------------------------------------
(* Properties of the worker *)

\* C19: queue.stop() is never called before queue.start() has returned, and only
\* after a termination signal was received; it is called once at most; and a
\* signal that comes with the handlers registered, while start() is running
\* too, leads to the one stop() call.
C19_StopAfterStartAndSignal ==
    /\ [](worker.stop_calls >= 1 =>
            /\ worker.start_calls = 1
            /\ worker.start_returned
            /\ worker.received >= 1)
    /\ [](worker.stop_calls <= 1)
    /\ (worker.caught_at # "none") ~> (worker.stop_calls = 1)

\* a signal came while start() was running, and stop() has been called once
C19_Witness ==
    /\ worker.caught_at = "starting"
    /\ ~worker.pending
    /\ worker.stop_calls = 1
    /\ worker.start_returned
    /\ jobs["q1"].stop

\* C20: with asynchronous embedding processing disabled, run() logs the error
\* and returns normally; no queue is constructed, start() is not called and no
\* record is processed.
C20_DisabledWorkerRefuses ==
    (~worker.async_embeddings /\ worker.pc # "run") =>
        /\ worker.pc = "returned"
        /\ "async_embeddings_disabled" \in worker.logged
        /\ DOMAIN jobs = {}
        /\ worker.start_calls = 0
        /\ \A id \in 1..Len(records) :
              /\ records[id].embedding_status = "pending"
              /\ records[id].generated = 0

\* run() has returned from a disabled configuration
C20_Witness ==
    /\ ~worker.async_embeddings
    /\ worker.pc = "returned"
    /\ worker.logged = {"async_embeddings_disabled"}

-----------------------------------------------------------------------------
(* Properties of backend selection *)

\* the call made last found no usable shared store: none is configured, or the
\* construction of its client raised
NoUsableStore ==
    /\ startup.last.built
    /\ ~Truthy(startup.settings.redis_url) \/ ~startup.last.constructs

\* C21: in production with the require flag set and no usable shared store,
\* neither _build_limiter nor _default_backend returns an in-process backend:
\* the call raises.
C21_MissingRequiredStoreIsFatal ==
    (ProductionStrict(startup.settings) /\ NoUsableStore) =>
        /\ startup.last.raised
        /\ startup.last.backend # "memory"

\* C22: with a shared-store address configured, a construction that succeeds
\* selects the shared backend; one that fails falls back to the in-process
\* backend, or is fatal in production-strict mode.
C22_FallbackUnlessStrict ==
    (startup.last.built /\ Truthy(startup.settings.redis_url)) =>
        IF startup.last.constructs
        THEN ~startup.last.raised /\ startup.last.backend = "redis"
        ELSE IF ProductionStrict(startup.settings)
        THEN startup.last.raised
        ELSE ~startup.last.raised /\ startup.last.backend = "memory"

-----------------------------------------------------------------------------
(* Properties of the cache under backend failures *)

\* C23: an exception the backend raises inside get, set or invalidate_search
\* does not leave the CacheService method: get returns a miss, set and
\* invalidate_search return having done nothing.
C23_BackendFailureIsContained ==
    reply.failed =>
        /\ ~reply.raised
        /\ reply.value = None

-----------------------------------------------------------------------------
(* Properties of limit parsing *)

\* the unit a parsed string names: its last word but the plural s
NamedUnit(limit_str) ==
    LET words == SelectSeq(limit_str, LAMBDA t : LowerWord(t) \in Units)
    IN  IF words = <<>> THEN None ELSE LowerWord(words[Len(words)])

\* C24: parsing a limit string fails, or yields an amount >= 1 that is the
\* leading number and the window of the unit named: 1, 60, 3600 or 86400 for
\* second, minute, hour, day. "200/minute" yields 200 per 60 seconds,
\* "10 per second" a window of 1 second, and "abc" fails.
C24_ParsedAmountPositive ==
    mw.called =>
        /\ ~mw.raised =>
              /\ mw.global_limit.amount >= 1
              /\ mw.global_limit.amount = IntOf(TakeDigits(DropBlanks(mw.global_limit_str)))
              /\ NamedUnit(mw.global_limit_str) = "second" => mw.global_limit.window_seconds = 1
              /\ NamedUnit(mw.global_limit_str) = "minute" => mw.global_limit.window_seconds = 60
              /\ NamedUnit(mw.global_limit_str) = "hour" => mw.global_limit.window_seconds = 3600
              /\ NamedUnit(mw.global_limit_str) = "day" => mw.global_limit.window_seconds = 86400
              /\ NamedUnit(mw.global_limit_str) \in Units
        /\ mw.global_limit_str = <<"2", "0", "0", "/", "minute">> =>
              (~mw.raised /\ mw.global_limit = RateLimitConfig(200, 60))
        /\ mw.global_limit_str = <<"1", "0", " ", "per", " ", "second">> =>
              (~mw.raised /\ mw.global_limit.window_seconds = 1)
        /\ mw.global_limit_str = <<"abc">> => mw.raised

-----------------------------------------------------------------------------
(* Properties of the two limiter backends *)

\* C25: for the same config and the same timed sequence of hits on one
\* identifier, the in-process and the Redis limiter return the same allowed
\* decision and the same count on every call.
C25_BackendsInterchangeable ==
    \A identifier \in Identifiers :
        LET m == History(memHits, MemKey(limit, identifier))
            r == History(redisHits, RedisKey(limit, identifier))
        IN  /\ Len(m) = Len(r)
            /\ \A i \in 1..Len(m) :
                  /\ m[i].allowed = r[i].allowed
                  /\ m[i].count = r[i].count

-----------------------------------------------------------------------------
(* Properties of the order of the two checks *)

\* the hits the built limiter counts for an identifier under a config: the
\* timestamps of the log that lie inside the window, or the value of the live key
Counter(w, store, config, identifier) ==
    IF limiter = "memory"
    THEN Len(PopExpired(Entries(w, MemKey(config, identifier)), clock - WindowTicks(config)))
    ELSE LET key == RedisKey(config, identifier)
         IN  IF Live(store, key) THEN store[key].value ELSE 0

\* the counter of a tenant identifier under the tenant limit
TenantCounter(w, store, tenant_identifier) ==
    Counter(w, store, mw.tenant_limit, tenant_identifier)

\* the counter of an IP-derived identifier under the global limit
GlobalCounter(w, store, global_identifier) ==
    Counter(w, store, mw.global_limit, global_identifier)

\* C26: the tenant limiter is hit only after the global limiter was hit and
\* allowed the request; the step in which the global limiter rejects a request
\* ends its dispatch with the global rejection and leaves the counter of the
\* request's tenant as it was.
C26_GlobalRejectionSparesTenant ==
    /\ [](\A r \in DOMAIN slot :
            (slot[r].stage \in {"tenant", "forward"} \/ slot[r].tenant_state # NoResult)
                => (slot[r].global_state.count >= 1 /\ slot[r].global_state.allowed))
    /\ [](last.stage = "done" /\ last.tenant_state # NoResult
            => (last.global_state.count >= 1 /\ last.global_state.allowed))
    /\ [][\A r \in DOMAIN slot :
            (slot[r].stage = "global" /\ slot'[r].stage = "idle") =>
                /\ last'.scope = "global"
                /\ ~last'.forwarded
                /\ last'.tenant_state = NoResult
                /\ TenantCounter(windows', redis', slot[r].tenant_identifier)
                      = TenantCounter(windows, redis, slot[r].tenant_identifier)]_vars

\* the second request of a tenant is rejected by the global limiter, and the
\* tenant's counter stands at the one hit of the first request
C26_Witness ==
    /\ Checked
    /\ entered = 2
    /\ last.scope = "global"
    /\ last.response.status = 429
    /\ Truthy(last.tenant_id)
    /\ last.tenant_state = NoResult
    /\ TenantCounter(windows, redis, TenantIdentifier(last.tenant_id)) = 1

-----------------------------------------------------------------------------
(* Properties of the counters under rejection *)

\* the requests from an identifier that wait for their global hit
AwaitingGlobal(sl, global_identifier) ==
    Cardinality({r \in DOMAIN sl : sl[r].stage = "global"
                                   /\ sl[r].global_identifier = global_identifier})

\* the identifiers the requests are counted under
GlobalIdentifiers == {GetIpIdentifier(request) : request \in Requests}

\* C28: every global hit raises the counter of its identifier by one, whether it
\* allows the request or not; a request the tenant limiter rejects has raised
\* the global counter before and raises the tenant counter too; so the global
\* counter of an identifier moves with the requests that are not bypassed: it
\* and the requests still waiting for their global hit go up by one exactly
\* when such a request enters dispatch, and never otherwise.
C28_RejectedRequestsAreCounted ==
    [][/\ \A r \in DOMAIN slot :
            /\ (slot[r].stage = "global" /\ slot'[r].stage # "global") =>
                  LET g == slot[r].global_identifier
                  IN  /\ GlobalCounter(windows', redis', g)
                            = GlobalCounter(windows, redis, g) + 1
                      /\ slot'[r].stage = "idle" =>
                            last'.global_state.count = GlobalCounter(windows', redis', g)
            /\ (slot[r].stage = "tenant" /\ slot'[r].stage = "idle") =>
                  LET t == slot[r].tenant_identifier
                      g == slot[r].global_identifier
                  IN  /\ last'.scope = "tenant"
                      /\ TenantCounter(windows', redis', t)
                            = TenantCounter(windows, redis, t) + 1
                      /\ last'.tenant_state.count = TenantCounter(windows', redis', t)
                      /\ last'.global_state.count >= 1
                      /\ GlobalCounter(windows, redis, g) >= last'.global_state.count
       /\ \A g \in GlobalIdentifiers :
            GlobalCounter(windows', redis', g) + AwaitingGlobal(slot', g)
              = GlobalCounter(windows, redis, g) + AwaitingGlobal(slot, g)
                + (IF \E r \in DOMAIN slot : /\ slot[r].stage = "idle"
                                            /\ slot'[r].stage = "global"
                                            /\ slot'[r].global_identifier = g
                   THEN 1 ELSE 0)]_vars

\* three requests of one caller were counted by the global limiter, and the
\* third was rejected by the tenant limiter
C28_Witness ==
    /\ Checked
    /\ entered = 3
    /\ last.scope = "tenant"
    /\ last.response.status = 429
    /\ last.global_state.count = 3
    /\ \E g \in GlobalIdentifiers : GlobalCounter(windows, redis, g) = 3

-----------------------------------------------------------------------------
(* Properties of the eviction of InMemoryCache *)

\* the keys a store holds
KeysOf(s) == {s[i].key : i \in 1..Len(s)}

\* the entries of a store under other keys than the given one
OthersOf(s, key) == {s[i] : i \in {j \in 1..Len(s) : s[j].key # key}}

\* C27: a set on a store below capacity removes nothing; a set on a store at
\* capacity removes exactly one entry, one with the earliest expires_at, and
\* then inserts; no set removes more than one entry.
C27_EvictsEarliestExpiring ==
    [][(calls' = calls + 1 /\ reply'.op = "set" /\ ~Disabled) =>
          LET key == reply'.key
          IN  IF Len(cacheStore) < cache.max_items
              THEN /\ OthersOf(cacheStore', key) = OthersOf(cacheStore, key)
                   /\ key \in KeysOf(cacheStore')
              ELSE /\ ~reply'.raised
                   /\ key \in KeysOf(cacheStore')
                   /\ \E i \in 1..Len(cacheStore) :
                         /\ \A j \in 1..Len(cacheStore) :
                               cacheStore[i].expires_at <= cacheStore[j].expires_at
                         /\ OthersOf(cacheStore', key)
                               = OthersOf(cacheStore, key) \ {cacheStore[i]}
                         /\ Len(cacheStore')
                               = Len(cacheStore) - 1
                                 + (IF key \in KeysOf(cacheStore) \ {cacheStore[i].key}
                                    THEN 0 ELSE 1)]_vars

====
